---- MODULE Spec2Model ----
(***************************************************************************)
(* State-machine model of the simulation core of the action roguelike:     *)
(* the Health component, the CombatSystem (perform_attack, apply_damage,   *)
(* handle_death) and the frame-windowed melee hitboxes of the              *)
(* WeaponAttackSystem / HitboxManager.                                     *)
(*                                                                         *)
(* The module holds several specifications over disjoint groups of         *)
(* variables; a specification leaves the variables of the other groups at  *)
(* their idle value.                                                       *)
(***************************************************************************)
EXTENDS Integers, Sequences, FiniteSets, TLC

VARIABLES
    h_max_hp,       \* Health.max_hp of the component under test
    h_hp,           \* Health.hp of the component under test
    h_last,         \* the last Health call: its name, argument, hp before it, return value
    entities,       \* EntityManager.entities: id -> the entity's components, keyed by kind
    next_id,        \* EntityManager.next_id
    event_queue,    \* EventBus._queue
    last,           \* the last CombatSystem call: its arguments, rolls, result and pre-state
    active_hitboxes, \* HitboxManager.active_hitboxes
    frame_counter,  \* HitboxManager.frame_counter
    attack_frames,  \* WeaponAttackSystem.attack_frames: attacker id -> frame
    swings,         \* history: the number of melee hitboxes created so far
    blows,          \* history: entity id -> the number of damaging melee hits it took
    bus_handlers,   \* EventBus._handlers: event type -> the handlers, in subscription order
    bus_seq,        \* history: the number of events emitted so far
    bus_last,       \* the last EventBus call: its name, the queue before it, its deliveries
    state_machines, \* EnemyAI.state_machines: enemy id -> the state machine's timers
    puddles,        \* PuddleSystem.puddles
    ai_last,        \* the last AI or puddle call: its name, arguments and pre-state
    boss_system,    \* BossSystem: boss_id, the intro, the arena and its gates
    active_telegraphs, \* TelegraphSystem.active_telegraphs
    boss_last,      \* the last BossSystem call, with the counts of attacks started and executed
    scene,          \* GameplayScene: player_id, current_time, next_scene, the perk menu, the camera
    tick_log,       \* history: the subsystem steps of the last GameplayScene.update, in order
    scene_last,     \* the last GameplayScene.update: its inputs, deliveries and pre-state
    unit,           \* an object exercised on its own: a Pathfinder's level, a StatusEffects, an InputBuffer
    unit_last       \* the last call on that object or on the EntityManager, with its result

healthVars == <<h_max_hp, h_hp, h_last>>
combatVars == <<entities, next_id, event_queue, last>>
meleeVars == <<active_hitboxes, frame_counter, attack_frames, swings, blows>>

busVars == <<bus_handlers, bus_seq, bus_last>>

aiVars == <<state_machines, puddles, ai_last>>

bossVars == <<boss_system, active_telegraphs, boss_last>>
sceneVars == <<scene, tick_log, scene_last>>
unitVars == <<unit, unit_last>>

\* The variables of the specifications other than Health, combat and melee
extVars == <<busVars, aiVars, bossVars, sceneVars, unitVars>>

vars == <<h_max_hp, h_hp, h_last, entities, next_id, event_queue, last,
          active_hitboxes, frame_counter, attack_frames, swings, blows,
          bus_handlers, bus_seq, bus_last, state_machines, puddles, ai_last,
          boss_system, active_telegraphs, boss_last, scene, tick_log, scene_last,
          unit, unit_last>>

Min(a, b) == IF a <= b THEN a ELSE b
Max(a, b) == IF a >= b THEN a ELSE b

(***************************************************************************)
(* Bounds of the Health specification.                                     *)
(***************************************************************************)
MaxHp == 4
MaxAmount == 5

(***************************************************************************)
(* Health (components.py).                                                 *)
(***************************************************************************)
\* Health.__post_init__: hp = min(hp, max_hp)
post_init_hp(max_hp, hp) == Min(hp, max_hp)

\* A take_damage that forgets the lower clamp.
take_damage_hp_unclamped(hp, amount) == hp - amount

\* Health.take_damage: the new hp, max(0, hp - amount)
take_damage_hp(hp, amount) == Max(0, hp - amount)

\* Health.heal: the new hp, min(max_hp, hp + amount)
heal_hp(max_hp, hp, amount) == Min(max_hp, hp + amount)

\* Health.is_alive
is_alive(hp) == hp > 0

\* The variables of the combat specifications while another specification runs.
IdleBus ==
    /\ bus_handlers = <<>>
    /\ bus_seq = 0
    /\ bus_last = [op |-> "idle"]

IdleAI ==
    /\ state_machines = <<>>
    /\ puddles = <<>>
    /\ ai_last = [op |-> "idle"]

IdleBoss ==
    /\ boss_system = [boss_id |-> -1]
    /\ active_telegraphs = <<>>
    /\ boss_last = [op |-> "idle"]

IdleScene ==
    /\ scene = [player_id |-> -1]
    /\ tick_log = <<>>
    /\ scene_last = [op |-> "idle"]

IdleUnit ==
    /\ unit = [kind |-> "idle"]
    /\ unit_last = [op |-> "idle"]

\* The idle value of every group in extVars
IdleExt == IdleBus /\ IdleAI /\ IdleBoss /\ IdleScene /\ IdleUnit

IdleMelee ==
    /\ active_hitboxes = <<>>
    /\ frame_counter = 0
    /\ attack_frames = <<>>
    /\ swings = 0
    /\ blows = <<>>

IdleCombat ==
    /\ entities = <<>>
    /\ next_id = 0
    /\ event_queue = <<>>
    /\ last = [op |-> "idle"]

\* Health(max_hp, hp): the constructor with its arguments drawn from the bounds
InitHealth ==
    /\ IdleCombat
    /\ IdleMelee
    /\ IdleExt
    /\ \E m \in 0..MaxHp, h \in 0..(MaxHp + 1) :
          /\ h_max_hp = m
          /\ h_hp = post_init_hp(m, h)
          /\ h_last = [op |-> "init", amount |-> h, old_hp |-> h, ret |-> 0]

\* The hp a sequence of negative arguments can reach is unbounded; the model
\* stops drawing calls once hp has left the window below.
HealthInWindow == h_hp \in (-(2 * MaxAmount))..(MaxHp + 2 * MaxAmount)

\* Health.take_damage(amount), returning old_hp - hp
TakeDamage ==
    \E a \in (-MaxAmount)..MaxAmount :
       LET new == take_damage_hp(h_hp, a) IN
       /\ HealthInWindow
       /\ h_hp' = new
       /\ h_last' = [op |-> "take_damage", amount |-> a, old_hp |-> h_hp,
                     ret |-> h_hp - new]
       /\ UNCHANGED <<h_max_hp, combatVars, meleeVars, extVars>>

\* Health.heal(amount), returning hp - old_hp
Heal ==
    \E a \in (-MaxAmount)..MaxAmount :
       LET new == heal_hp(h_max_hp, h_hp, a) IN
       /\ HealthInWindow
       /\ h_hp' = new
       /\ h_last' = [op |-> "heal", amount |-> a, old_hp |-> h_hp,
                     ret |-> new - h_hp]
       /\ UNCHANGED <<h_max_hp, combatVars, meleeVars, extVars>>

NextHealth ==
    \/ TakeDamage
    \/ Heal

SpecHealth == InitHealth /\ [][NextHealth]_vars

(***************************************************************************)
(* Entity store (entities.py).  An entity is its dictionary of components, *)
(* keyed by the component kind; the store maps ids to entities in          *)
(* insertion order, which is the order of the ids.                         *)
(***************************************************************************)
\* Entity.has_component
has_component(entity, kind) == kind \in DOMAIN entity

\* EntityManager.remove_entity: del self.entities[entity_id] when present
remove_entity(ents, entity_id) ==
    [k \in (DOMAIN ents) \ {entity_id} |-> ents[k]]

\* The ids of a dictionary in iteration (insertion) order.
RECURSIVE SortedIds(_)
SortedIds(S) ==
    IF S = {} THEN <<>>
    ELSE LET m == CHOOSE x \in S : \A y \in S : x <= y
         IN  <<m>> \o SortedIds(S \ {m})

(***************************************************************************)
(* Components (components.py).                                             *)
(***************************************************************************)
FactionType == {"player", "enemy", "boss", "neutral"}

\* Faction.is_enemy_of
is_enemy_of(self_tag, other_tag) ==
    IF self_tag = "player" THEN other_tag \in {"enemy", "boss"}
    ELSE IF self_tag \in {"enemy", "boss"} THEN other_tag = "player"
    ELSE FALSE

\* A cooldown test that lets a weapon attack one time unit early.
can_attack_early(weapon, current_time) ==
    current_time - weapon.last_attack_time >= weapon.attack_delay - 1

\* Weapon.can_attack
can_attack(weapon, current_time) ==
    current_time - weapon.last_attack_time >= weapon.attack_delay

\* Weapon.get_effective_range, with no range_multiplier modifier
get_effective_range(weapon) == weapon.range

\* Damage.calculate_damage with the crit roll already made; crit_multiplier
\* is held in tenths and int() truncates
calculate_damage(damage_comp, is_crit) ==
    LET dmg == damage_comp.base + damage_comp.bonus_damage
    IN  IF is_crit THEN (dmg * damage_comp.crit_multiplier_x10) \div 10 ELSE dmg

\* The values random.random() < crit_chance can take (crit_chance in tenths)
CritOutcomes(damage_comp) ==
    IF damage_comp.crit_chance_x10 <= 0 THEN {FALSE}
    ELSE IF damage_comp.crit_chance_x10 >= 10 THEN {TRUE}
    ELSE BOOLEAN

\* Experience.add_xp: the while loop that turns xp into levels
RECURSIVE level_up_loop(_)
level_up_loop(exp) ==
    IF exp.xp >= exp.next_xp
    THEN level_up_loop([exp EXCEPT !.xp = @ - exp.next_xp,
                                   !.level = @ + 1,
                                   !.next_xp = (@ * 3) \div 2])
    ELSE exp

\* Experience.add_xp: the component after the call (xp_multiplier in tenths)
add_xp(exp, amount) ==
    level_up_loop([exp EXCEPT !.xp = @ + (amount * exp.xp_multiplier_x10) \div 10])

(***************************************************************************)
(* EventBus (events.py).                                                   *)
(***************************************************************************)
\* EventBus.emit
emit(queue, event) == Append(queue, event)

\* EventBus.process with no handler subscribed: pops from the front until
\* the queue is empty
RECURSIVE process(_)
process(queue) == IF queue = <<>> THEN queue ELSE process(Tail(queue))

(***************************************************************************)
(* CombatSystem (systems.py).  A world W is [ents, queue].                 *)
(***************************************************************************)
BaseXp == 10
BossXpFactor == 3

\* handle_death's XP amount: int(base_xp * (1 + enemy_level * 0.1)), times 3
\* for a boss
xp_amount(enemy_level, tag) ==
    LET amount == (BaseXp * (10 + enemy_level)) \div 10
    IN  IF tag = "boss" THEN amount * BossXpFactor ELSE amount

\* handle_death's XP block: the victim must hold an Experience component
grant_xp(W, entity_id, killer_id) ==
    LET entity == W.ents[entity_id]
        killer == W.ents[killer_id]
    IN  IF ~has_component(entity, "Experience") THEN W
        ELSE IF ~has_component(killer, "Experience") THEN W
        ELSE LET amount == xp_amount(entity.Experience.level, entity.Faction)
                 new_exp == add_xp(killer.Experience, amount)
                 ents1 == [W.ents EXCEPT ![killer_id].Experience = new_exp]
             IN  IF new_exp.level > killer.Experience.level
                 THEN [ents |-> ents1,
                       queue |-> emit(W.queue, [event_type |-> "level_up",
                                                entity_id |-> killer_id,
                                                level |-> new_exp.level])]
                 ELSE [W EXCEPT !.ents = ents1]

\* CombatSystem.handle_death with puddle_system = None and enemy_ai = None
handle_death(W, entity_id, killer_id) ==
    IF entity_id \notin DOMAIN W.ents \/ killer_id \notin DOMAIN W.ents THEN W
    ELSE IF ~( has_component(W.ents[entity_id], "Faction")
               /\ has_component(W.ents[killer_id], "Faction") ) THEN W
    ELSE IF W.ents[entity_id].Faction = "player"
         THEN [W EXCEPT !.queue = emit(@, [event_type |-> "player_died",
                                           entity_id |-> entity_id])]
    ELSE IF W.ents[entity_id].Faction \in {"enemy", "boss"}
         THEN LET W1 == grant_xp(W, entity_id, killer_id)
                  W2 == [W1 EXCEPT !.queue = emit(@, [event_type |-> "enemy_killed",
                                                      entity_id |-> entity_id,
                                                      killer_id |-> killer_id])]
              IN  [W2 EXCEPT !.ents = remove_entity(@, entity_id)]
    ELSE W

\* A dodge test that lets a target of any faction dodge.
dodges_any_faction(target, dodged) == dodged

\* apply_damage's dodge test: the roll is read only when the target's faction
\* is enemy
dodges(target, dodged) ==
    /\ has_component(target, "Faction")
    /\ target.Faction = "enemy"
    /\ dodged

\* CombatSystem.apply_damage; dodged is the outcome of random.random() < 0.1
apply_damage(W, target_id, damage, attacker_id, is_crit, dodged) ==
    IF target_id \notin DOMAIN W.ents THEN [W |-> W, ret |-> 0]
    ELSE IF ~has_component(W.ents[target_id], "Health") THEN [W |-> W, ret |-> 0]
    ELSE IF dodges(W.ents[target_id], dodged) THEN [W |-> W, ret |-> 0]
    ELSE
      LET old_hp == W.ents[target_id].Health.hp
          new_hp == take_damage_hp(old_hp, damage)
          actual_damage == old_hp - new_hp
          W1 == [W EXCEPT !.ents[target_id].Health.hp = new_hp]
          W2 == [W1 EXCEPT !.queue = emit(@, [event_type |-> "damage_taken",
                                              entity_id |-> target_id,
                                              damage |-> actual_damage,
                                              attacker_id |-> attacker_id,
                                              is_crit |-> is_crit])]
      IN  IF actual_damage > 0
          THEN [W |-> IF ~is_alive(new_hp)
                      THEN handle_death(W2, target_id, attacker_id)
                      ELSE W2,
                ret |-> actual_damage]
          ELSE [W |-> W1, ret |-> actual_damage]

\* A penetration test that never ends the loop.
penetration_never_reached(weapon, hit_entities) == FALSE

\* perform_attack's penetration test: with penetration > 0 the loop ends once
\* penetration + 1 hits are recorded
penetration_reached(weapon, hit_entities) ==
    /\ weapon.penetration > 0
    /\ Len(hit_entities) >= weapon.penetration + 1

\* The loop of perform_attack over self.entity_manager.entities.items().
\* st is [ents, queue, hits, outcome]; ids are the ids still to visit; size0 is
\* the size of the dictionary when the iteration began: Python's dictionary
\* iterator raises RuntimeError at its next step once the size has changed.
\* att holds the attacker's components fetched before the loop; crit and
\* dodge are the targets whose crit roll and dodge roll succeed.
RECURSIVE attack_loop(_, _, _, _, _, _, _, _)
attack_loop(st, ids, size0, attacker_id, att, target_pos, crit, dodge) ==
    IF Cardinality(DOMAIN st.ents) # size0 THEN [st EXCEPT !.outcome = "raised"]
    ELSE IF ids = <<>> THEN st
    ELSE
      LET entity_id == Head(ids)
          entity == st.ents[entity_id]
          rest == Tail(ids)
          skip == attack_loop(st, rest, size0, attacker_id, att, target_pos, crit, dodge)
      IN
      IF entity_id = attacker_id THEN skip
      ELSE IF ~( /\ has_component(entity, "Faction")
                 /\ has_component(entity, "Transform")
                 /\ has_component(entity, "Health")
                 /\ is_enemy_of(att.Faction, entity.Faction) ) THEN skip
      ELSE
        LET dx == entity.Transform.x - target_pos[1]
            dy == entity.Transform.y - target_pos[2]
            dist_sq == dx * dx + dy * dy
            range_sq == get_effective_range(att.Weapon) * get_effective_range(att.Weapon)
        IN
        IF dist_sq <= range_sq
        THEN LET is_crit == entity_id \in crit
                 damage == calculate_damage(att.Damage, is_crit)
                 r == apply_damage([ents |-> st.ents, queue |-> st.queue], entity_id,
                                   damage, attacker_id, is_crit, entity_id \in dodge)
                 hits1 == IF r.ret > 0 THEN Append(st.hits, entity_id) ELSE st.hits
                 st1 == [ents |-> r.W.ents, queue |-> r.W.queue,
                         hits |-> hits1, outcome |-> st.outcome]
             IN  IF penetration_reached(att.Weapon, hits1)
                 THEN st1
                 ELSE attack_loop(st1, rest, size0, attacker_id, att, target_pos,
                                  crit, dodge)
        ELSE skip

\* CombatSystem.perform_attack: [ents, queue, hits, outcome], outcome being
\* "missing" (no attacker or a component is missing), "gated" (the weapon is
\* on cooldown), "done" (returned normally) or "raised" (RuntimeError)
perform_attack(W, attacker_id, target_pos, current_time, crit, dodge) ==
    IF attacker_id \notin DOMAIN W.ents
    THEN [ents |-> W.ents, queue |-> W.queue, hits |-> <<>>, outcome |-> "missing"]
    ELSE IF ~( /\ has_component(W.ents[attacker_id], "Weapon")
               /\ has_component(W.ents[attacker_id], "Damage")
               /\ has_component(W.ents[attacker_id], "Faction")
               /\ has_component(W.ents[attacker_id], "Transform") )
    THEN [ents |-> W.ents, queue |-> W.queue, hits |-> <<>>, outcome |-> "missing"]
    ELSE IF ~can_attack(W.ents[attacker_id].Weapon, current_time)
    THEN [ents |-> W.ents, queue |-> W.queue, hits |-> <<>>, outcome |-> "gated"]
    ELSE
      LET ents1 == [W.ents EXCEPT ![attacker_id].Weapon.last_attack_time = current_time]
      IN  attack_loop([ents |-> ents1, queue |-> W.queue, hits |-> <<>>,
                       outcome |-> "done"],
                      SortedIds(DOMAIN ents1), Cardinality(DOMAIN ents1),
                      attacker_id, ents1[attacker_id], target_pos, crit, dodge)

(***************************************************************************)
(* The combat specification: a player, a hostile (enemy or boss) and a     *)
(* neutral bystander, attacked through CombatSystem.perform_attack and     *)
(* CombatSystem.apply_damage.  Time is counted in units of 0.25 s, so the  *)
(* player's attack_delay of 0.5 s (create_player) is 2.                    *)
(***************************************************************************)
MaxTime == 4
MaxQueue == 0

\* create_player, in a run where the player has earned 20 xp; attack_delay
\* 0.5 s is 2 time units
PlayerEntity ==
    [Transform |-> [x |-> 0, y |-> 0, dx |-> 0, dy |-> 0],
     Health |-> [max_hp |-> 100, hp |-> 100],
     Damage |-> [base |-> 15, bonus_damage |-> 0, crit_chance_x10 |-> 1,
                 crit_multiplier_x10 |-> 20],
     Faction |-> "player",
     Weapon |-> [weapon_type |-> "sword", attack_delay |-> 2, range |-> 60,
                 penetration |-> 0, last_attack_time |-> 0],
     Experience |-> [level |-> 1, xp |-> 20, next_xp |-> 50, xp_multiplier_x10 |-> 10],
     Collider |-> [width |-> 28, height |-> 28]]

\* create_enemy gives an enemy no Experience and no Weapon component
EnemyBase(x, y, tag) ==
    [Transform |-> [x |-> x, y |-> y, dx |-> 0, dy |-> 0],
     Health |-> [max_hp |-> 30, hp |-> 30],
     Damage |-> [base |-> 50, bonus_damage |-> 0, crit_chance_x10 |-> 0,
                 crit_multiplier_x10 |-> 20],
     Faction |-> tag,
     Collider |-> [width |-> 28, height |-> 28]]

WithExperience(entity, level) ==
    entity @@ [Experience |-> [level |-> level, xp |-> 0, next_xp |-> 50,
                                xp_multiplier_x10 |-> 10]]

\* The points an attack is aimed at: the goblin's position, and one far from
\* everybody
TargetPoints == {<<40, 0>>, <<400, 0>>}

NoCall ==
    [op |-> "none", attacker |-> -1, target |-> -1, now |-> 0, damage |-> 0,
     crit |-> {}, dodge |-> {}, exclude_ids |-> {}, outcome |-> "none",
     hits |-> <<>>, calls |-> <<>>,
     ret |-> 0,
     pre_ents |-> <<>>, pre_queue |-> <<>>]

IdleHealth == h_max_hp = 0 /\ h_hp = 0 /\ h_last = [op |-> "idle"]

InitCombat ==
    /\ IdleHealth
    /\ IdleMelee
    /\ IdleExt
    /\ \E f1 \in {"enemy", "boss"}, f2 \in {"neutral"}, withExp \in BOOLEAN :
          entities =
             0 :> PlayerEntity
             @@ 1 :> (IF withExp THEN WithExperience(EnemyBase(40, 0, f1), 1)
                      ELSE EnemyBase(40, 0, f1))
             @@ 2 :> (IF withExp THEN WithExperience(EnemyBase(50, 0, f2), 2)
                      ELSE EnemyBase(50, 0, f2))
    /\ next_id = 3
    /\ event_queue = <<>>
    /\ last = NoCall

\* The ids attacks are made for: the player, and the weaponless goblin
Attackers == {0, 1}

\* The damage of a direct apply_damage call (each enemy's Damage.base)
ContactDamage == {50}

\* The hostile targets within range of target_pos, before the attack
Candidates(attacker_id, target_pos) ==
    IF attacker_id \notin DOMAIN entities THEN {}
    ELSE IF ~( /\ has_component(entities[attacker_id], "Weapon")
               /\ has_component(entities[attacker_id], "Faction") ) THEN {}
    ELSE {e \in DOMAIN entities :
            /\ e # attacker_id
            /\ has_component(entities[e], "Faction")
            /\ has_component(entities[e], "Transform")
            /\ has_component(entities[e], "Health")
            /\ is_enemy_of(entities[attacker_id].Faction, entities[e].Faction)
            /\ LET dx == entities[e].Transform.x - target_pos[1]
                   dy == entities[e].Transform.y - target_pos[2]
                   r == get_effective_range(entities[attacker_id].Weapon)
               IN  dx * dx + dy * dy <= r * r}

\* The sets of targets whose crit roll may succeed, for this attacker
CritChoices(attacker_id, cands) ==
    IF attacker_id \notin DOMAIN entities THEN {{}}
    ELSE IF ~has_component(entities[attacker_id], "Damage") THEN {{}}
    ELSE {S \in SUBSET cands :
            \A e \in cands : (e \in S) \in CritOutcomes(entities[attacker_id].Damage)}

\* The sets of targets whose dodge roll may succeed: the roll is made for the
\* enemy faction only
DodgeChoices(cands) ==
    SUBSET {e \in cands : entities[e].Faction = "enemy"}

\* CombatSystem.perform_attack(attacker_id, target_pos, current_time), for an
\* attacker and a time drawn from the sets given
PerformAttackAt(attackers, times) ==
    \E attacker_id \in attackers, target_pos \in TargetPoints, now \in times :
      \E crit \in CritChoices(attacker_id, Candidates(attacker_id, target_pos)),
         dodge \in DodgeChoices(Candidates(attacker_id, target_pos)) :
        LET r == perform_attack([ents |-> entities, queue |-> event_queue],
                                attacker_id, target_pos, now, crit, dodge)
        IN  /\ Len(event_queue) <= MaxQueue
            /\ entities' = r.ents
            /\ event_queue' = r.queue
            /\ last' = [NoCall EXCEPT !.op = "perform_attack",
                                      !.attacker = attacker_id,
                                      !.target = target_pos,
                                      !.now = now,
                                      !.crit = crit, !.dodge = dodge,
                                      !.outcome = r.outcome, !.hits = r.hits,
                                      !.pre_ents = entities,
                                      !.pre_queue = event_queue]
            /\ UNCHANGED <<next_id, healthVars, meleeVars, extVars>>

\* CombatSystem.perform_attack at any time, whatever the time of the call
\* before
PerformAttack == PerformAttackAt(Attackers, 0..MaxTime)

\* CombatSystem.apply_damage(target_id, damage, attacker_id), called directly
\* as the slime's contact damage and the boss's slam do
ApplyDamage ==
    \E target_id \in 0..(next_id - 1), attacker_id \in Attackers,
       damage \in ContactDamage, dodged \in BOOLEAN :
        LET r == apply_damage([ents |-> entities, queue |-> event_queue],
                              target_id, damage, attacker_id, FALSE, dodged)
        IN  /\ Len(event_queue) <= MaxQueue
            /\ entities' = r.W.ents
            /\ event_queue' = r.W.queue
            /\ last' = [NoCall EXCEPT !.op = "apply_damage",
                                      !.attacker = attacker_id,
                                      !.target = target_id,
                                      !.damage = damage,
                                      !.dodge = IF dodged THEN {target_id} ELSE {},
                                      !.outcome = "done", !.ret = r.ret,
                                      !.pre_ents = entities,
                                      !.pre_queue = event_queue]
            /\ UNCHANGED <<next_id, healthVars, meleeVars, extVars>>

\* EventBus.process()
ProcessEvents ==
    /\ event_queue # <<>>
    /\ event_queue' = process(event_queue)
    /\ last' = [NoCall EXCEPT !.op = "process", !.pre_ents = entities,
                              !.pre_queue = event_queue]
    /\ UNCHANGED <<entities, next_id, healthVars, meleeVars, extVars>>

NextCombat ==
    \/ PerformAttack
    \/ ApplyDamage
    \/ ProcessEvents

SpecCombat == InitCombat /\ [][NextCombat]_vars

(***************************************************************************)
(* Melee hitboxes (hitboxes.py) and the WeaponAttackSystem (combat.py).    *)
(* Positions are integer pixels and attack directions are axis-aligned     *)
(* unit vectors, on which the floating-point tests of the source are the   *)
(* exact integer tests below.                                              *)
(***************************************************************************)
MaxFrame == 6

\* 90 * tan(15 deg) = 24.1: half the width _spear_attack gives its line
LineHalfWidth == 24

Sgn(n) == IF n > 0 THEN 1 ELSE IF n < 0 THEN -1 ELSE 0

InSeq(x, seq) == \E i \in DOMAIN seq : seq[i] = x

\* get_weapon_stats(weapon_type, Rarity.COMMON): the fields the attacks read
get_weapon_stats(weapon_type) ==
    IF weapon_type = "sword"
    THEN [range |-> 60, arc_angle |-> 60, arc_start_frame |-> 0, arc_end_frame |-> 3]
    ELSE [range |-> 90, cone_angle |-> 30, line_start_frame |-> 2, line_end_frame |-> 5]

\* WeaponAttackSystem._get_attack_direction; mouse_pos is <<>> for None, and
\* the offsets are axis-aligned, so that normalising keeps the signs
get_attack_direction(transform, mouse_pos) ==
    LET mdx == mouse_pos[1] - transform.x
        mdy == mouse_pos[2] - transform.y
    IN  IF mouse_pos # <<>> /\ (mdx # 0 \/ mdy # 0) THEN <<Sgn(mdx), Sgn(mdy)>>
        ELSE IF transform.dx # 0 \/ transform.dy # 0
             THEN <<Sgn(transform.dx), Sgn(transform.dy)>>
        ELSE <<0, -1>>

\* ArcHitbox.check_point for arc_angle = 60 degrees.  dir is the attack
\* direction; start_angle = atan2(dir) - arc_angle/2, and the test
\* |angle - start_angle| <= arc_angle/2 admits the bearings from
\* atan2(dir) - 60 degrees to atan2(dir): cross <= 0 and cos >= 1/2.
arc_check_point(hitbox, point) ==
    LET vx == point[1] - hitbox.center[1]
        vy == point[2] - hitbox.center[2]
        n2 == vx * vx + vy * vy
        dot == hitbox.dir[1] * vx + hitbox.dir[2] * vy
        cross == hitbox.dir[1] * vy - hitbox.dir[2] * vx
    IN  /\ n2 <= hitbox.radius * hitbox.radius
        /\ \/ n2 = 0
           \/ (cross <= 0 /\ dot >= 0 /\ 4 * dot * dot >= n2)

\* LineHitbox.check_point: the projection falls on the segment and the point
\* is within width/2 of it
line_check_point(hitbox, point) ==
    LET vx == point[1] - hitbox.start[1]
        vy == point[2] - hitbox.start[2]
        dot == hitbox.dir[1] * vx + hitbox.dir[2] * vy
        cross == hitbox.dir[1] * vy - hitbox.dir[2] * vx
    IN  /\ hitbox.length # 0
        /\ 0 <= dot /\ dot <= hitbox.length
        /\ cross <= hitbox.half_width /\ -cross <= hitbox.half_width

check_point(hitbox, point) ==
    IF hitbox.kind = "arc" THEN arc_check_point(hitbox, point)
    ELSE line_check_point(hitbox, point)

\* check_entity: the transform position, then the corners of
\* Collider.get_rect, a rectangle whose top-left corner is that position
check_entity(hitbox, transform, collider) ==
    \/ check_point(hitbox, <<transform.x, transform.y>>)
    \/ \E corner \in { <<transform.x, transform.y>>,
                       <<transform.x + collider.width, transform.y>>,
                       <<transform.x + collider.width, transform.y + collider.height>>,
                       <<transform.x, transform.y + collider.height>> } :
          check_point(hitbox, corner)

\* A window test that opens one frame early.
is_active_one_early(hitbox) ==
    hitbox.start_frame - 1 <= hitbox.current_frame
        /\ hitbox.current_frame <= hitbox.end_frame

\* ArcHitbox.is_active, LineHitbox.is_active
is_active(hitbox) ==
    hitbox.start_frame <= hitbox.current_frame
        /\ hitbox.current_frame <= hitbox.end_frame

\* HitboxManager.add_arc_hitbox
add_arc_hitbox(hitboxes, center, radius, dir, arc_angle, start_frame, end_frame) ==
    Append(hitboxes, [kind |-> "arc", center |-> center, radius |-> radius,
                      dir |-> dir, arc_angle |-> arc_angle,
                      start_frame |-> start_frame, end_frame |-> end_frame,
                      current_frame |-> 0])

\* HitboxManager.add_line_hitbox
add_line_hitbox(hitboxes, start, dir, length, half_width, start_frame, end_frame) ==
    Append(hitboxes, [kind |-> "line", start |-> start, dir |-> dir,
                      length |-> length, half_width |-> half_width,
                      start_frame |-> start_frame, end_frame |-> end_frame,
                      current_frame |-> 0])

\* HitboxManager.update, given the incremented frame counter: every hitbox
\* takes the global counter as its frame and the expired ones are dropped
RECURSIVE hitbox_update(_, _)
hitbox_update(hitboxes, counter) ==
    IF hitboxes = <<>> THEN <<>>
    ELSE LET hitbox == [Head(hitboxes) EXCEPT !.current_frame = counter]
             rest == hitbox_update(Tail(hitboxes), counter)
         IN  IF hitbox.current_frame > hitbox.end_frame THEN rest
             ELSE <<hitbox>> \o rest

\* check_hits: the inner loop, over the entities, for one active hitbox
RECURSIVE check_hits_entities(_, _, _, _, _, _)
check_hits_entities(hitbox, ids, ents, attacker_id, exclude_ids, hit_entities) ==
    IF ids = <<>> THEN hit_entities
    ELSE
      LET entity_id == Head(ids)
          entity == ents[entity_id]
          hit == /\ entity_id # attacker_id
                 /\ entity_id \notin exclude_ids
                 /\ ~InSeq(entity_id, hit_entities)
                 /\ has_component(entity, "Transform")
                 /\ has_component(entity, "Collider")
                 /\ check_entity(hitbox, entity.Transform, entity.Collider)
      IN  check_hits_entities(hitbox, Tail(ids), ents, attacker_id, exclude_ids,
                              IF hit THEN Append(hit_entities, entity_id)
                              ELSE hit_entities)

\* check_hits: the outer loop, over the hitboxes
RECURSIVE check_hits_loop(_, _, _, _, _)
check_hits_loop(hitboxes, ents, attacker_id, exclude_ids, hit_entities) ==
    IF hitboxes = <<>> THEN hit_entities
    ELSE check_hits_loop(Tail(hitboxes), ents, attacker_id, exclude_ids,
            IF ~is_active(Head(hitboxes)) THEN hit_entities
            ELSE check_hits_entities(Head(hitboxes), SortedIds(DOMAIN ents), ents,
                                     attacker_id, exclude_ids, hit_entities))

\* HitboxManager.check_hits
check_hits(hitboxes, attacker_id, ents, exclude_ids) ==
    check_hits_loop(hitboxes, ents, attacker_id, exclude_ids, <<>>)

\* WeaponAttackSystem._sword_attack
sword_attack(hitboxes, transform, direction, weapon_stats) ==
    add_arc_hitbox(hitboxes, <<transform.x, transform.y>>, weapon_stats.range,
                   direction, weapon_stats.arc_angle,
                   weapon_stats.arc_start_frame, weapon_stats.arc_end_frame)

\* WeaponAttackSystem._spear_attack
spear_attack(hitboxes, transform, direction, weapon_stats) ==
    add_line_hitbox(hitboxes, <<transform.x, transform.y>>, direction,
                    weapon_stats.range, LineHalfWidth,
                    weapon_stats.line_start_frame, weapon_stats.line_end_frame)

\* WeaponAttackSystem.perform_attack for a sword or a spear:
\* [ents, hitboxes, frames, outcome]
weapon_perform_attack(ents, hitboxes, frames, attacker_id, current_time, mouse_pos) ==
    LET same(outcome) == [ents |-> ents, hitboxes |-> hitboxes, frames |-> frames,
                          outcome |-> outcome]
    IN
    IF attacker_id \notin DOMAIN ents THEN same("missing")
    ELSE IF ~( /\ has_component(ents[attacker_id], "Weapon")
               /\ has_component(ents[attacker_id], "Transform")
               /\ has_component(ents[attacker_id], "Damage") ) THEN same("missing")
    ELSE IF ~can_attack(ents[attacker_id].Weapon, current_time) THEN same("gated")
    ELSE
      LET attacker == ents[attacker_id]
          weapon_stats == get_weapon_stats(attacker.Weapon.weapon_type)
          attack_dir == get_attack_direction(attacker.Transform, mouse_pos)
      IN  [ents |-> [ents EXCEPT ![attacker_id].Weapon.last_attack_time = current_time],
           frames |-> (attacker_id :> 0) @@ frames,
           hitboxes |-> IF attacker.Weapon.weapon_type = "sword"
                        THEN sword_attack(hitboxes, attacker.Transform, attack_dir,
                                          weapon_stats)
                        ELSE spear_attack(hitboxes, attacker.Transform, attack_dir,
                                          weapon_stats),
           outcome |-> "done"]

\* update_attack_frames: the loop over one attacker's hit_entities.
\* st is [ents, queue, frames, blows, hits, calls]
RECURSIVE damage_hits(_, _, _, _, _, _)
damage_hits(st, hit_entities, attacker_id, damage_comp, crit, dodge) ==
    IF hit_entities = <<>> THEN st
    ELSE
      LET entity_id == Head(hit_entities)
          is_crit == entity_id \in crit
          damage == calculate_damage(damage_comp, is_crit)
          r == apply_damage([ents |-> st.ents, queue |-> st.queue], entity_id,
                            damage, attacker_id, is_crit, entity_id \in dodge)
      IN  damage_hits([st EXCEPT !.ents = r.W.ents,
                                 !.queue = r.W.queue,
                                 !.blows = IF r.ret > 0
                                           THEN [@ EXCEPT ![entity_id] = @ + 1]
                                           ELSE @,
                                 !.hits = Append(@, entity_id),
                                 !.calls = Append(@, <<attacker_id, entity_id>>)],
                      Tail(hit_entities), attacker_id, damage_comp, crit, dodge)

\* update_attack_frames: the loop over list(self.attack_frames.keys())
RECURSIVE attackers_loop(_, _, _, _, _)
attackers_loop(st, ids, hitboxes, crit, dodge) ==
    IF ids = <<>> THEN st
    ELSE
      LET attacker_id == Head(ids)
          st1 == [st EXCEPT !.frames[attacker_id] = @ + 1]
          dropped == [st1 EXCEPT !.frames =
                         [k \in (DOMAIN st1.frames) \ {attacker_id} |-> st1.frames[k]]]
      IN  IF attacker_id \notin DOMAIN st.ents
          THEN attackers_loop(dropped, Tail(ids), hitboxes, crit, dodge)
          ELSE IF ~( /\ has_component(st.ents[attacker_id], "Weapon")
                     /\ has_component(st.ents[attacker_id], "Damage") )
          THEN attackers_loop(dropped, Tail(ids), hitboxes, crit, dodge)
          ELSE attackers_loop(
                  damage_hits(st1, check_hits(hitboxes, attacker_id, st1.ents, {}),
                              attacker_id, st1.ents[attacker_id].Damage, crit, dodge),
                  Tail(ids), hitboxes, crit, dodge)

(***************************************************************************)
(* The melee specification: the player, holding a sword or a spear, a      *)
(* hostile up and to the right of it and a neutral bystander next to the   *)
(* hostile; nobody moves.  The scene calls perform_attack with the mouse   *)
(* position and update_attack_frames once per tick.                        *)
(***************************************************************************)
\* The player after PlayerController._switch_weapon; the spear's attack_delay
\* of 0.7 s is counted as 3 time units
PlayerWith(weapon_type) ==
    IF weapon_type = "sword" THEN PlayerEntity
    ELSE [PlayerEntity EXCEPT !.Weapon.weapon_type = weapon_type,
                              !.Weapon.attack_delay = 3,
                              !.Weapon.range = 90,
                              !.Weapon.penetration = 1]

\* The scene attacks for the player only
MeleeAttackers == {0}

\* The mouse to the right of the player, and above it
MousePositions == {<<100, 0>>, <<0, -100>>}

InitMelee ==
    /\ IdleHealth
    /\ IdleExt
    /\ \E weapon_type \in {"sword", "spear"}, f1 \in {"enemy", "boss"} :
          entities = 0 :> PlayerWith(weapon_type)
                     @@ 1 :> EnemyBase(40, -10, f1)
                     @@ 2 :> EnemyBase(30, -20, "neutral")
    /\ next_id = 3
    /\ event_queue = <<>>
    /\ last = NoCall
    /\ active_hitboxes = <<>>
    /\ frame_counter = 0
    /\ attack_frames = <<>>
    /\ swings = 0
    /\ blows = [e \in 0..2 |-> 0]

\* WeaponAttackSystem.perform_attack(attacker_id, current_time, mouse_pos)
WeaponPerformAttack ==
    \E attacker_id \in MeleeAttackers, now \in 0..MaxTime, mouse_pos \in MousePositions :
        LET r == weapon_perform_attack(entities, active_hitboxes, attack_frames,
                                       attacker_id, now, mouse_pos)
        IN  /\ entities' = r.ents
            /\ active_hitboxes' = r.hitboxes
            /\ attack_frames' = r.frames
            /\ swings' = IF r.outcome = "done" THEN swings + 1 ELSE swings
            /\ last' = [NoCall EXCEPT !.op = "weapon_attack",
                                      !.attacker = attacker_id,
                                      !.outcome = r.outcome]
            /\ UNCHANGED <<next_id, event_queue, frame_counter, blows, healthVars, extVars>>

\* The entities this tick's check_hits calls return
TickHits(hitboxes) ==
    {e \in DOMAIN entities :
        \E a \in DOMAIN attack_frames :
            InSeq(e, check_hits(hitboxes, a, entities, {}))}

\* The sets of hit entities whose crit roll may succeed
MeleeCritChoices(hit) ==
    {{}} \cup UNION {CritChoices(a, hit) : a \in DOMAIN attack_frames}

\* WeaponAttackSystem.update_attack_frames(dt)
UpdateAttackFrames ==
    /\ frame_counter < MaxFrame
    /\ Len(event_queue) <= MaxQueue
    /\ LET hitboxes == hitbox_update(active_hitboxes, frame_counter + 1)
       IN  \E crit \in MeleeCritChoices(TickHits(hitboxes)),
              dodge \in DodgeChoices(TickHits(hitboxes)) :
             LET r == attackers_loop([ents |-> entities, queue |-> event_queue,
                                      frames |-> attack_frames, blows |-> blows,
                                      hits |-> <<>>, calls |-> <<>>],
                                     SortedIds(DOMAIN attack_frames), hitboxes,
                                     crit, dodge)
             IN  /\ frame_counter' = frame_counter + 1
                 /\ active_hitboxes' = hitboxes
                 /\ entities' = r.ents
                 /\ event_queue' = r.queue
                 /\ attack_frames' = r.frames
                 /\ blows' = r.blows
                 /\ last' = [NoCall EXCEPT !.op = "update_attack_frames",
                                           !.crit = crit, !.dodge = dodge,
                                           !.outcome = "done",
                                           !.hits = r.hits, !.calls = r.calls,
                                           !.pre_ents = entities,
                                           !.pre_queue = event_queue]
                 /\ UNCHANGED <<next_id, swings, healthVars, extVars>>

\* HitboxManager.check_hits(attacker_id, entity_manager, exclude_ids), called
\* on its own
CheckHits ==
    \E attacker_id \in MeleeAttackers, exclude_ids \in {{}, {1}} :
        /\ last' = [NoCall EXCEPT !.op = "check_hits",
                                  !.attacker = attacker_id,
                                  !.exclude_ids = exclude_ids,
                                  !.outcome = "done",
                                  !.hits = check_hits(active_hitboxes, attacker_id,
                                                      entities, exclude_ids),
                                  !.pre_ents = entities,
                                  !.pre_queue = event_queue]
        /\ UNCHANGED <<entities, next_id, event_queue, healthVars, meleeVars, extVars>>

NextMelee ==
    \/ WeaponPerformAttack
    \/ UpdateAttackFrames
    \/ CheckHits
    \/ ProcessEvents

SpecMelee == InitMelee /\ [][NextMelee]_vars

(***************************************************************************)
(* The EventBus specification (events.py): subscribe, unsubscribe, emit,   *)
(* process and clear, with handlers that stay quiet, raise, or emit a      *)
(* further event.  An event carries, as history, the number seq of events  *)
(* emitted before it.  A handler emits only an event type later in         *)
(* BusEventTypes than the one it handles, so that process terminates.      *)
(***************************************************************************)
MaxHandlers == 2
MaxEmits == 2

BusEventTypes == <<"damage_taken", "enemy_killed", "level_up">>

Rank(event_type) == CHOOSE i \in DOMAIN BusEventTypes : BusEventTypes[i] = event_type

\* The handlers that can be subscribed to an event type
HandlersFor(event_type) ==
    {[kind |-> "quiet", emits |-> "none"], [kind |-> "raises", emits |-> "none"]}
    \cup {[kind |-> "emits", emits |-> BusEventTypes[i]] :
             i \in {j \in DOMAIN BusEventTypes : j > Rank(event_type)}}

\* An order of delivery that takes the newest event first.
queue_pop_last(queue) ==
    [event |-> queue[Len(queue)], rest |-> SubSeq(queue, 1, Len(queue) - 1)]

\* self._queue.pop(0)
queue_pop(queue) == [event |-> Head(queue), rest |-> Tail(queue)]

\* self._handlers.get(event_type, [])
handlers_get(handlers, event_type) ==
    IF event_type \in DOMAIN handlers THEN handlers[event_type] ELSE <<>>

\* process: the loop over the handlers of one event.  st is
\* [queue, seq, popped, deliveries]; an exception a handler raises is caught
RECURSIVE run_handlers(_, _, _)
run_handlers(st, event, hs) ==
    IF hs = <<>> THEN st
    ELSE LET handler == Head(hs)
             st1 == [st EXCEPT !.deliveries = Append(@, <<event.seq, handler>>)]
             st2 == IF handler.kind = "emits"
                    THEN [st1 EXCEPT !.queue = emit(@, [event_type |-> handler.emits,
                                                        seq |-> st.seq]),
                                     !.seq = @ + 1]
                    ELSE st1
         IN  run_handlers(st2, event, Tail(hs))

\* EventBus.process with handlers: the while loop
RECURSIVE bus_process(_, _)
bus_process(st, handlers) ==
    IF st.queue = <<>> THEN st
    ELSE LET p == queue_pop(st.queue)
         IN  bus_process(
                 run_handlers([st EXCEPT !.queue = p.rest,
                                         !.popped = Append(@, p.event)],
                              p.event, handlers_get(handlers, p.event.event_type)),
                 handlers)

\* list.remove: drops the first occurrence; ValueError when there is none
RECURSIVE list_remove(_, _)
list_remove(seq, x) ==
    IF seq = <<>> THEN <<>>
    ELSE IF Head(seq) = x THEN Tail(seq)
    ELSE <<Head(seq)>> \o list_remove(Tail(seq), x)

\* The number of subscriptions
RECURSIVE HandlerCount(_)
HandlerCount(handlers) ==
    IF DOMAIN handlers = {} THEN 0
    ELSE LET t == CHOOSE t \in DOMAIN handlers : TRUE
         IN  Len(handlers[t])
             + HandlerCount([u \in (DOMAIN handlers) \ {t} |-> handlers[u]])

BusTypes == {BusEventTypes[i] : i \in DOMAIN BusEventTypes}

BusOther == <<healthVars, entities, next_id, last, meleeVars, aiVars, bossVars,
              sceneVars, unitVars>>

InitBus ==
    /\ IdleHealth
    /\ IdleUnit
    /\ IdleMelee
    /\ entities = <<>> /\ next_id = 0 /\ last = [op |-> "idle"]
    /\ event_queue = <<>>
    /\ IdleBus
    /\ IdleAI
    /\ IdleBoss
    /\ IdleScene

\* EventBus.subscribe(event_type, handler)
BusSubscribe ==
    \E event_type \in BusTypes :
      \E handler \in HandlersFor(event_type) :
        /\ HandlerCount(bus_handlers) < MaxHandlers
        /\ bus_handlers' =
              IF event_type \notin DOMAIN bus_handlers
              THEN (event_type :> <<handler>>) @@ bus_handlers
              ELSE [bus_handlers EXCEPT ![event_type] = Append(@, handler)]
        /\ bus_last' = [op |-> "subscribe"]
        /\ UNCHANGED <<event_queue, bus_seq, BusOther>>

\* EventBus.unsubscribe(event_type, handler)
BusUnsubscribe ==
    \E event_type \in BusTypes :
      \E handler \in HandlersFor(event_type) :
        /\ bus_handlers' =
              IF event_type \in DOMAIN bus_handlers
              THEN [bus_handlers EXCEPT ![event_type] = list_remove(@, handler)]
              ELSE bus_handlers
        /\ bus_last' = [op |-> "unsubscribe"]
        /\ UNCHANGED <<event_queue, bus_seq, BusOther>>

\* EventBus.emit(event)
BusEmit ==
    \E event_type \in BusTypes :
        /\ bus_seq < MaxEmits
        /\ event_queue' = emit(event_queue, [event_type |-> event_type, seq |-> bus_seq])
        /\ bus_seq' = bus_seq + 1
        /\ bus_last' = [op |-> "emit"]
        /\ UNCHANGED <<bus_handlers, BusOther>>

\* EventBus.process()
BusProcess ==
    LET r == bus_process([queue |-> event_queue, seq |-> bus_seq,
                          popped |-> <<>>, deliveries |-> <<>>], bus_handlers)
    IN  /\ event_queue' = r.queue
        /\ bus_seq' = r.seq
        /\ bus_last' = [op |-> "process", pre_queue |-> event_queue,
                        pre_seq |-> bus_seq, popped |-> r.popped,
                        deliveries |-> r.deliveries]
        /\ UNCHANGED <<bus_handlers, BusOther>>

\* EventBus.clear()
BusClear ==
    /\ event_queue' = <<>>
    /\ bus_last' = [op |-> "clear"]
    /\ UNCHANGED <<bus_handlers, bus_seq, BusOther>>

NextBus ==
    \/ BusSubscribe
    \/ BusUnsubscribe
    \/ BusEmit
    \/ BusProcess
    \/ BusClear

SpecBus == InitBus /\ [][NextBus]_vars

(***************************************************************************)
(* Enemy AI (ai_states.py, enemies.py), the legacy AISystem (systems.py),  *)
(* status effects (components.py) and slime puddles (puddles.py).          *)
(* Durations are counted in units of 0.25 s.  A velocity Transform.dx, dy  *)
(* is kept in pixels per second (60 times the per-frame value of the       *)
(* source); the player and an enemy are always on a common axis, where the *)
(* normalised direction (dx / dist, dy / dist) is (Sgn(dx), Sgn(dy)).      *)
(***************************************************************************)
MaxAITime == 6

\* The dt of one update, in time units
AIDts == {1, 2}

\* AI.set_state
set_state(ai, new_state) == [ai EXCEPT !.state = new_state, !.state_timer = 0]

\* The EnemyConfig of a slime: speed 60 px/s, attack_cooldown 1.5 s (the
\* default of _update_attack), contact damage every second, a puddle of 3 s
SlimeConfig ==
    [health |-> 30, damage |-> 5, speed |-> 60, agro_radius |-> 200,
     attack_range |-> 60, dodge_chance_x10 |-> 0, dodge_duration |-> 0,
     contact_damage |-> TRUE, contact_damage_cooldown |-> 4,
     slime_puddle_duration |-> 12, slime_puddle_slow_x10 |-> 5,
     split_chance_x10 |-> 10, split_count |-> 2,
     attack_cooldown |-> 6, dash_speed |-> 120]

\* The EnemyConfig of a small slime: no contact damage, no split
SlimeSmallConfig ==
    [SlimeConfig EXCEPT !.health = 15, !.contact_damage = FALSE,
                        !.split_chance_x10 = 0]

\* self.configs.get(enemy_type, ...) for the slime types
ConfigOf(enemy_type) ==
    IF enemy_type = "slime_small" THEN SlimeSmallConfig ELSE SlimeConfig

\* AI(agro_radius, attack_range, behavior="aggressive")
NewAI(config) ==
    [state |-> "idle", state_timer |-> 0, agro_radius |-> config.agro_radius,
     attack_range |-> config.attack_range,
     telegraph_duration |-> 0, telegraph_type |-> "None"]

\* create_enemy for a slime or a small slime: the entity's components
create_enemy_components(x, y, enemy_type) ==
    LET config == ConfigOf(enemy_type)
        collider_size == IF enemy_type # "slime_small" THEN 28 ELSE 20
    IN  [Transform |-> [x |-> x, y |-> y, dx |-> 0, dy |-> 0],
         Health |-> [max_hp |-> config.health, hp |-> config.health],
         Damage |-> [base |-> config.damage, bonus_damage |-> 0,
                     crit_chance_x10 |-> 0, crit_multiplier_x10 |-> 20],
         Collider |-> [width |-> collider_size, height |-> collider_size],
         Faction |-> "enemy",
         AI |-> NewAI(config),
         Enemy |-> [enemy_type |-> enemy_type],
         StatusEffects |-> <<>>]

\* EnemyStateMachine.__init__: the timers of a new state machine
NewStateMachine ==
    [attack_cooldown |-> 0, dodge_timer |-> 0, contact_damage_timer |-> 0]

\* (dx / dist) * speed, (dy / dist) * speed on a common axis; dist > 0
toward(dx, dy, speed) == [dx |-> Sgn(dx) * speed, dy |-> Sgn(dy) * speed]

\* An add_effect that appends whether or not the kind is present.
add_effect_stacking(effects, effect) == Append(effects, effect)

\* StatusEffects.add_effect: an effect of the same type has its duration
\* refreshed, and nothing else of it is changed
add_effect(effects, effect) ==
    IF \E i \in DOMAIN effects : effects[i].effect_type = effect.effect_type
    THEN LET i == CHOOSE i \in DOMAIN effects :
                      /\ effects[i].effect_type = effect.effect_type
                      /\ \A j \in 1..(i - 1) :
                            effects[j].effect_type # effect.effect_type
         IN  [effects EXCEPT ![i].duration = effect.duration]
    ELSE Append(effects, effect)

\* StatusEffects.update(dt)
status_update(effects, dt) ==
    LET aged == [i \in DOMAIN effects |->
                    [effects[i] EXCEPT !.duration = @ - dt]]
        Live(e) == e.duration > 0
    IN  SelectSeq(aged, Live)

\* The state the transition block of EnemyStateMachine.update chooses
next_ai_state(enemy, sm, config, player_transform) ==
    LET dx == player_transform.x - enemy.Transform.x
        dy == player_transform.y - enemy.Transform.y
        d2 == dx * dx + dy * dy
    IN  IF d2 <= config.agro_radius * config.agro_radius
        THEN IF d2 <= config.attack_range * config.attack_range
                /\ sm.attack_cooldown <= 0
             THEN "attack"
             ELSE "chase"
        ELSE "patrol"

\* EnemyStateMachine._update_patrol
update_patrol(enemy) == [enemy EXCEPT !.Transform.dx = 0, !.Transform.dy = 0]

\* SlimeStateMachine._update_chase
slime_update_chase(enemy, config, player_transform) ==
    LET dx == player_transform.x - enemy.Transform.x
        dy == player_transform.y - enemy.Transform.y
    IN  IF dx # 0 \/ dy # 0
        THEN [enemy EXCEPT !.Transform.dx = toward(dx, dy, config.speed).dx,
                           !.Transform.dy = toward(dx, dy, config.speed).dy]
        ELSE enemy

\* EnemyStateMachine._update_attack: [enemy, sm]
update_attack(enemy, sm, config, player_transform, dodge_roll) ==
    LET dx == player_transform.x - enemy.Transform.x
        dy == player_transform.y - enemy.Transform.y
        stopped == [enemy EXCEPT !.Transform.dx = 0, !.Transform.dy = 0]
        dashing == IF dx # 0 \/ dy # 0
                   THEN [enemy EXCEPT
                            !.Transform.dx = toward(dx, dy, config.dash_speed).dx,
                            !.Transform.dy = toward(dx, dy, config.dash_speed).dy]
                   ELSE stopped
    IN  IF sm.attack_cooldown <= 0
        THEN [enemy |-> IF dodge_roll /\ has_component(dashing, "StatusEffects")
                        THEN [dashing EXCEPT !.StatusEffects =
                                 add_effect(@, [effect_type |-> "invulnerable",
                                                duration |-> config.dodge_duration,
                                                value |-> 0])]
                        ELSE dashing,
              sm |-> [sm EXCEPT !.attack_cooldown = config.attack_cooldown,
                                !.dodge_timer = IF dodge_roll
                                                THEN config.dodge_duration ELSE @]]
        ELSE [enemy |-> stopped, sm |-> sm]

\* EnemyStateMachine.update(dt, player_transform) of a SlimeStateMachine,
\* with player_transform given: [enemy, sm].  path_update_timer, which only
\* the chase of the other enemy types reads, is left out.
state_machine_update(enemy, sm, config, dt, player_transform, dodge_roll) ==
    LET sm1 == [sm EXCEPT !.attack_cooldown = Max(0, @ - dt),
                          !.dodge_timer = Max(0, @ - dt),
                          !.contact_damage_timer = Max(0, @ - dt)]
        new_state == next_ai_state(enemy, sm1, config, player_transform)
        e1 == [enemy EXCEPT !.AI = set_state(@, new_state)]
    IN  IF ~(has_component(enemy, "AI") /\ has_component(enemy, "Transform"))
        THEN [enemy |-> enemy, sm |-> sm]
        ELSE IF new_state = "patrol"
        THEN [enemy |-> update_patrol(e1), sm |-> sm1]
        ELSE IF new_state = "chase"
        THEN [enemy |-> slime_update_chase(e1, config, player_transform), sm |-> sm1]
        ELSE update_attack(e1, sm1, config, player_transform, dodge_roll)

\* PuddleSystem.add_puddle
add_puddle(pud, x, y, radius, duration, slow_amount) ==
    Append(pud, [x |-> x, y |-> y, radius |-> radius, duration |-> duration,
                 slow_amount |-> slow_amount, remaining_time |-> duration])

\* Puddle.check_collision
check_collision(puddle, entity_x, entity_y) ==
    LET dx == entity_x - puddle.x
        dy == entity_y - puddle.y
    IN  dx * dx + dy * dy <= puddle.radius * puddle.radius

\* PuddleSystem.update, first loop: every puddle ages, the expired are removed
puddles_age(pud, dt) ==
    LET aged == [i \in DOMAIN pud |-> [pud[i] EXCEPT !.remaining_time = @ - dt]]
        is_active_puddle(p) == p.remaining_time > 0
    IN  SelectSeq(aged, is_active_puddle)

\* PuddleSystem.update, second loop, for one entity: the first puddle of the
\* list that holds the entity is applied, and the loop breaks
apply_first_puddle(entity, pud) ==
    LET Holds(i) == check_collision(pud[i], entity.Transform.x, entity.Transform.y)
    IN  IF \E i \in DOMAIN pud : Holds(i)
        THEN LET i == CHOOSE i \in DOMAIN pud :
                          Holds(i) /\ \A j \in 1..(i - 1) : ~Holds(j)
                 effects == IF has_component(entity, "StatusEffects")
                            THEN entity.StatusEffects ELSE <<>>
                 slowed == add_effect(effects,
                                      [effect_type |-> "slowed",
                                       duration |-> pud[i].duration,
                                       value |-> pud[i].slow_amount])
             IN  IF has_component(entity, "StatusEffects")
                 THEN [entity EXCEPT !.StatusEffects = slowed]
                 ELSE entity @@ [StatusEffects |-> slowed]
        ELSE entity

\* PuddleSystem.update(dt, entity_manager): [ents, puddles]
puddle_update(ents, pud, dt) ==
    LET live == puddles_age(pud, dt)
    IN  [ents |-> [e \in DOMAIN ents |->
                      IF /\ has_component(ents[e], "Transform")
                         /\ has_component(ents[e], "Faction")
                         /\ ents[e].Faction = "player"
                      THEN apply_first_puddle(ents[e], live)
                      ELSE ents[e]],
         puddles |-> live]

\* The radius of the puddle a slime leaves on contact
ContactPuddleRadius == 30

\* EnemyAI.update: the loop over the enemies.  st is [ents, queue, sms,
\* puddles]; dodge_rolls is the set of enemies whose dodge roll succeeds
RECURSIVE enemy_ai_loop(_, _, _, _, _, _)
enemy_ai_loop(st, ids, dt, player_id, player_transform, dodge_rolls) ==
    IF ids = <<>> THEN st
    ELSE
      LET enemy_id == Head(ids)
          enemy == st.ents[enemy_id]
          config == ConfigOf(enemy.Enemy.enemy_type)
          sm0 == IF enemy_id \in DOMAIN st.sms THEN st.sms[enemy_id]
                 ELSE NewStateMachine
          r == state_machine_update(enemy, sm0, config, dt, player_transform,
                                    enemy_id \in dodge_rolls)
          dx == player_transform.x - enemy.Transform.x
          dy == player_transform.y - enemy.Transform.y
          contact == /\ config.contact_damage
                     /\ dx * dx + dy * dy <= config.attack_range * config.attack_range
                     /\ r.sm.contact_damage_timer <= 0
          ents1 == [st.ents EXCEPT ![enemy_id] = r.enemy]
          hit == apply_damage([ents |-> ents1, queue |-> st.queue], player_id,
                              config.damage, enemy_id, FALSE, FALSE)
          st1 == IF contact
                 THEN [ents |-> hit.W.ents, queue |-> hit.W.queue,
                       sms |-> (enemy_id :> [r.sm EXCEPT !.contact_damage_timer =
                                                config.contact_damage_cooldown])
                               @@ st.sms,
                       puddles |-> add_puddle(st.puddles, enemy.Transform.x,
                                              enemy.Transform.y, ContactPuddleRadius,
                                              config.slime_puddle_duration,
                                              config.slime_puddle_slow_x10)]
                 ELSE [st EXCEPT !.ents = ents1,
                                 !.sms = (enemy_id :> r.sm) @@ st.sms]
      IN  IF enemy.Faction = "boss"
          THEN enemy_ai_loop(st, Tail(ids), dt, player_id, player_transform, dodge_rolls)
          ELSE enemy_ai_loop(st1, Tail(ids), dt, player_id, player_transform, dodge_rolls)

\* The ids of get_entities_with(Enemy, Transform, AI, Faction), in store order
AIEnemies(ents) ==
    SortedIds({e \in DOMAIN ents :
                  /\ has_component(ents[e], "Enemy")
                  /\ has_component(ents[e], "Transform")
                  /\ has_component(ents[e], "AI")
                  /\ has_component(ents[e], "Faction")})

\* EnemyAI.update(dt, player_id): [ents, queue, sms, puddles]
enemy_ai_update(ents, queue, sms, pud, dt, player_id, dodge_rolls) ==
    LET st == [ents |-> ents, queue |-> queue, sms |-> sms, puddles |-> pud]
    IN  IF player_id \notin DOMAIN ents THEN st
        ELSE IF ~has_component(ents[player_id], "Transform") THEN st
        ELSE LET r == enemy_ai_loop(st, AIEnemies(ents), dt, player_id,
                                    ents[player_id].Transform, dodge_rolls)
             IN  [r EXCEPT !.sms = [k \in (DOMAIN r.sms) \cap (DOMAIN r.ents)
                                       |-> r.sms[k]]]

\* MovementSystem.update(dt): the velocity is integrated and the status
\* effects age.  dx, dy are in pixels per second and dt in quarters of a second
movement_update(ents, dt) ==
    [e \in DOMAIN ents |->
        IF has_component(ents[e], "Transform")
        THEN LET moved == [ents[e] EXCEPT
                              !.Transform.x = @ + (ents[e].Transform.dx * dt) \div 4,
                              !.Transform.y = @ + (ents[e].Transform.dy * dt) \div 4]
             IN  IF has_component(moved, "StatusEffects")
                 THEN [moved EXCEPT !.StatusEffects = status_update(@, dt)]
                 ELSE moved
        ELSE ents[e]]

\* The chase speed of AISystem.update_enemy_ai, 120.0 / 60.0 per frame
LegacyChaseSpeed == 120

\* AISystem.update_enemy_ai with a player present
update_enemy_ai(entity, player_transform) ==
    LET dx == player_transform.x - entity.Transform.x
        dy == player_transform.y - entity.Transform.y
        d2 == dx * dx + dy * dy
        ai == entity.AI
    IN  IF d2 <= ai.agro_radius * ai.agro_radius
        THEN IF d2 <= ai.attack_range * ai.attack_range
             THEN [entity EXCEPT !.AI = set_state(@, "attack"),
                                 !.Transform.dx = 0, !.Transform.dy = 0]
             ELSE [entity EXCEPT !.AI = set_state(@, "chase"),
                                 !.Transform.dx = toward(dx, dy, LegacyChaseSpeed).dx,
                                 !.Transform.dy = toward(dx, dy, LegacyChaseSpeed).dy]
        ELSE [entity EXCEPT !.AI = set_state(@, "patrol"),
                            !.Transform.dx = 0, !.Transform.dy = 0]

\* The first entity of the store with a Faction of player and a Transform
find_player(ents) ==
    LET ps == {e \in DOMAIN ents :
                  /\ has_component(ents[e], "Faction")
                  /\ has_component(ents[e], "Transform")
                  /\ ents[e].Faction = "player"}
    IN  IF ps = {} THEN -1 ELSE Head(SortedIds(ps))

\* AISystem.update(dt) on a store without a boss
ai_system_update(ents, dt) ==
    LET p == find_player(ents)
    IN  [e \in DOMAIN ents |->
            IF /\ has_component(ents[e], "AI")
               /\ has_component(ents[e], "Transform")
               /\ has_component(ents[e], "Faction")
            THEN LET timed == [ents[e] EXCEPT !.AI.state_timer = @ + dt]
                 IN  IF p = -1
                     THEN [timed EXCEPT !.AI = set_state(@, "idle"),
                                        !.Transform.dx = 0, !.Transform.dy = 0]
                     ELSE update_enemy_ai(timed, ents[p].Transform)
            ELSE ents[e]]

(***************************************************************************)
(* The AI specification: the player stands still to the right of a slime   *)
(* at the origin, within its attack range, within its agro radius or       *)
(* beyond it; EnemyAI.update, the legacy AISystem.update and               *)
(* MovementSystem.update are called in any order.                          *)
(***************************************************************************)
PlayerSpots == {<<40, 0>>, <<150, 0>>, <<300, 0>>}

\* create_player: the player of the combat specification with its empty
\* StatusEffects component
PlayerWithStatus(x, y) ==
    [PlayerEntity EXCEPT !.Transform.x = x, !.Transform.y = y]
        @@ [StatusEffects |-> <<>>]

NoAICall ==
    [op |-> "none", dt |-> 0, elapsed |-> 0, pre_ents |-> <<>>, pre_sms |-> <<>>,
     at_set |-> <<>>]

AIOther == <<healthVars, next_id, last, meleeVars, busVars, bossVars, sceneVars,
             unitVars>>

InitAI ==
    /\ IdleHealth
    /\ IdleUnit
    /\ IdleMelee
    /\ IdleBus
    /\ IdleBoss
    /\ IdleScene
    /\ \E spot \in PlayerSpots :
          entities = 0 :> PlayerWithStatus(spot[1], spot[2])
                     @@ 1 :> create_enemy_components(0, 0, "slime")
    /\ next_id = 2
    /\ event_queue = <<>>
    /\ last = NoCall
    /\ state_machines = <<>>
    /\ puddles = <<>>
    /\ ai_last = NoAICall

\* The sets of enemies whose dodge roll may succeed
AIDodgeRolls(ents) ==
    SUBSET {e \in DOMAIN ents :
               /\ has_component(ents[e], "Enemy")
               /\ ConfigOf(ents[e].Enemy.enemy_type).dodge_chance_x10 > 0}

\* The state_timer of every AI component of the store
StateTimers(ents) ==
    [e \in {k \in DOMAIN ents : has_component(ents[k], "AI")} |->
        ents[e].AI.state_timer]

\* EnemyAI.update(dt, player_id)
EnemyAIUpdate ==
    \E dt \in AIDts, dodge_rolls \in AIDodgeRolls(entities) :
        LET r == enemy_ai_update(entities, event_queue, state_machines, puddles,
                                 dt, 0, dodge_rolls)
        IN  /\ ai_last.elapsed + dt <= MaxAITime
            /\ entities' = r.ents
            /\ event_queue' = r.queue
            /\ state_machines' = r.sms
            /\ puddles' = r.puddles
            /\ ai_last' = [op |-> "enemy_ai_update", dt |-> dt,
                           elapsed |-> ai_last.elapsed + dt,
                           pre_ents |-> entities, pre_sms |-> state_machines,
                           at_set |-> StateTimers(entities)]
            /\ UNCHANGED AIOther

\* AISystem.update(dt)
AISystemUpdate ==
    \E dt \in AIDts :
        /\ ai_last.elapsed + dt <= MaxAITime
        /\ entities' = ai_system_update(entities, dt)
        /\ ai_last' = [op |-> "ai_system_update", dt |-> dt,
                       elapsed |-> ai_last.elapsed + dt,
                       pre_ents |-> entities, pre_sms |-> state_machines,
                       at_set |-> [e \in DOMAIN StateTimers(entities) |->
                                      StateTimers(entities)[e] + dt]]
        /\ UNCHANGED <<event_queue, state_machines, puddles, AIOther>>

\* MovementSystem.update(dt)
MovementUpdate ==
    \E dt \in AIDts :
        /\ ai_last.elapsed + dt <= MaxAITime
        /\ entities' = movement_update(entities, dt)
        /\ ai_last' = [op |-> "movement_update", dt |-> dt,
                       elapsed |-> ai_last.elapsed + dt,
                       pre_ents |-> entities, pre_sms |-> state_machines,
                       at_set |-> <<>>]
        /\ UNCHANGED <<event_queue, state_machines, puddles, AIOther>>

NextAI ==
    \/ EnemyAIUpdate
    \/ AISystemUpdate
    \/ MovementUpdate

SpecAI == InitAI /\ [][NextAI]_vars

(***************************************************************************)
(* The puddle specification: the player stands at the origin; puddles of   *)
(* radius 30 are added over it or away from it, and PuddleSystem.update    *)
(* and MovementSystem.update are called in any order.                      *)
(***************************************************************************)
MaxPuddles == 2

\* The centres of the puddles added: two that hold the player, one that does not
PuddleSpots == {<<0, 0>>, <<20, 0>>, <<100, 0>>}

\* The (duration, slow_amount * 10) of the puddles added
PuddleKinds == {<<4, 3>>, <<8, 5>>}

InitPuddle ==
    /\ IdleHealth
    /\ IdleUnit
    /\ IdleMelee
    /\ IdleBus
    /\ IdleBoss
    /\ IdleScene
    /\ entities = 0 :> PlayerWithStatus(0, 0)
    /\ next_id = 1
    /\ event_queue = <<>>
    /\ last = NoCall
    /\ state_machines = <<>>
    /\ puddles = <<>>
    /\ ai_last = NoAICall

\* PuddleSystem.add_puddle(x, y, radius, duration, slow_amount)
AddPuddle ==
    \E spot \in PuddleSpots, kind \in PuddleKinds :
        /\ Len(puddles) < MaxPuddles
        /\ puddles' = add_puddle(puddles, spot[1], spot[2], ContactPuddleRadius,
                                 kind[1], kind[2])
        /\ ai_last' = [NoAICall EXCEPT !.op = "add_puddle",
                                       !.elapsed = ai_last.elapsed,
                                       !.pre_ents = entities]
        /\ UNCHANGED <<entities, event_queue, state_machines, AIOther>>

\* PuddleSystem.update(dt, entity_manager)
PuddleUpdate ==
    \E dt \in AIDts :
        LET r == puddle_update(entities, puddles, dt)
        IN  /\ ai_last.elapsed + dt <= MaxAITime
            /\ entities' = r.ents
            /\ puddles' = r.puddles
            /\ ai_last' = [NoAICall EXCEPT !.op = "puddle_update", !.dt = dt,
                                           !.elapsed = ai_last.elapsed + dt,
                                           !.pre_ents = entities]
            /\ UNCHANGED <<event_queue, state_machines, AIOther>>

NextPuddle ==
    \/ AddPuddle
    \/ PuddleUpdate
    \/ MovementUpdate

SpecPuddle == InitPuddle /\ [][NextPuddle]_vars

(***************************************************************************)
(* The puddle specification with the player's controller: besides the      *)
(* calls above, PlayerController.update is called with the move-right key  *)
(* held (and the smoothed input settled at 1) or with no key held.         *)
(***************************************************************************)
\* speed = 140.0
PlayerSpeed == 140

\* StatusEffects.get_effect: the effects of the type, the first being the
\* one returned
get_effect(effects, effect_type) ==
    SelectSeq(effects, LAMBDA e : e.effect_type = effect_type)

\* The speed PlayerController.update applies: SLOW scales it down by its
\* value (in tenths), SPEED_BOOST up
controller_speed(effects) ==
    LET slow_effect == get_effect(effects, "slow")
        speed_boost == get_effect(effects, "speed_boost")
        slowed == IF slow_effect # <<>>
                  THEN (PlayerSpeed * (10 - Head(slow_effect).value)) \div 10
                  ELSE PlayerSpeed
    IN  IF speed_boost # <<>>
        THEN (slowed * (10 + Head(speed_boost).value)) \div 10
        ELSE slowed

\* PlayerController.update with no dodge under way and the smoothed input
\* move_input_x settled at move_input (1, or 0 with no key held)
player_controller_move(ents, player_id, move_input) ==
    IF player_id \notin DOMAIN ents THEN ents
    ELSE IF ~( has_component(ents[player_id], "Transform")
               /\ has_component(ents[player_id], "Weapon") ) THEN ents
    ELSE LET speed == IF has_component(ents[player_id], "StatusEffects")
                      THEN controller_speed(ents[player_id].StatusEffects)
                      ELSE PlayerSpeed
         IN  [ents EXCEPT ![player_id].Transform.dx = move_input * speed,
                          ![player_id].Transform.dy = 0]

\* player_controller.update(dt, current_time)
ControllerUpdate ==
    \E move_input \in {0, 1} :
        /\ entities' = player_controller_move(entities, 0, move_input)
        /\ ai_last' = [NoAICall EXCEPT !.op = "controller_update",
                                       !.elapsed = ai_last.elapsed,
                                       !.pre_ents = entities]
        /\ unit_last' = [op |-> "controller_update", move_input |-> move_input]
        /\ UNCHANGED <<event_queue, state_machines, puddles, healthVars, next_id,
                       last, meleeVars, busVars, bossVars, sceneVars, unit>>

NextSlowedMove ==
    \/ AddPuddle
    \/ PuddleUpdate
    \/ MovementUpdate
    \/ ControllerUpdate

SpecSlowedMove == InitPuddle /\ [][NextSlowedMove]_vars

(***************************************************************************)
(* Invulnerability: the player's dodge roll, an enemy's dodge on its       *)
(* attack, and the damage dealt by apply_damage while either lasts.  No    *)
(* time passes in this specification, so neither dodge runs out.           *)
(***************************************************************************)
\* An EnemyConfig whose dodge_chance is 0.3 and whose dodge_duration is 0.5 s
DodgerConfig ==
    [SlimeConfig EXCEPT !.dodge_chance_x10 = 3, !.dodge_duration = 2]

\* The player's dodge_duration of 0.2 s, in hundredths of a second
PlayerDodgeDuration == 20

\* PlayerController._try_dodge: [ents, controller]; the controller is
\* [is_dodging, dodge_ready], dodge_ready telling whether the dodge cooldown
\* is ready
try_dodge(ents, controller, player_id) ==
    IF ~controller.dodge_ready THEN [ents |-> ents, controller |-> controller]
    ELSE IF player_id \notin DOMAIN ents THEN [ents |-> ents, controller |-> controller]
    ELSE IF ~has_component(ents[player_id], "Transform")
    THEN [ents |-> ents, controller |-> controller]
    ELSE [ents |-> IF has_component(ents[player_id], "StatusEffects")
                   THEN [ents EXCEPT ![player_id].StatusEffects =
                            add_effect(@, [effect_type |-> "speed_boost",
                                           duration |-> PlayerDodgeDuration,
                                           value |-> 0])]
                   ELSE ents,
          controller |-> [is_dodging |-> TRUE, dodge_ready |-> FALSE]]

\* PlayerController.is_invulnerable
is_invulnerable(controller) == controller.is_dodging

\* create_player and create_enemy, PlayerController.__init__
InitDodge ==
    /\ IdleHealth /\ IdleMelee
    /\ IdleBus /\ IdleBoss /\ IdleScene
    /\ entities = 0 :> PlayerWithStatus(0, 0)
                  @@ 1 :> create_enemy_components(40, 0, "slime")
    /\ next_id = 2
    /\ event_queue = <<>>
    /\ last = NoCall
    /\ state_machines = (1 :> NewStateMachine)
    /\ puddles = <<>>
    /\ ai_last = [op |-> "idle"]
    /\ unit = [is_dodging |-> FALSE, dodge_ready |-> TRUE]
    /\ unit_last = [op |-> "init"]

\* The dodge key: PlayerController.handle_event calls _try_dodge
TryDodge ==
    /\ entities' = try_dodge(entities, unit, 0).ents
    /\ unit' = try_dodge(entities, unit, 0).controller
    /\ last' = [NoCall EXCEPT !.op = "try_dodge", !.pre_ents = entities,
                              !.pre_queue = event_queue]
    /\ UNCHANGED <<next_id, event_queue, healthVars, meleeVars, busVars, aiVars,
                   bossVars, sceneVars, unit_last>>

\* EnemyStateMachine._update_attack of the enemy, its dodge roll made
EnemyUpdateAttack ==
    \E dodge_roll \in BOOLEAN :
        LET r == update_attack(entities[1], state_machines[1], DodgerConfig,
                               entities[0].Transform, dodge_roll)
        IN  /\ 1 \in DOMAIN entities
            /\ 0 \in DOMAIN entities
            /\ entities' = [entities EXCEPT ![1] = r.enemy]
            /\ state_machines' = [state_machines EXCEPT ![1] = r.sm]
            /\ last' = [NoCall EXCEPT !.op = "update_attack", !.pre_ents = entities,
                                      !.pre_queue = event_queue]
            /\ UNCHANGED <<next_id, event_queue, puddles, ai_last, healthVars,
                           meleeVars, busVars, bossVars, sceneVars, unitVars>>

NextDodge ==
    \/ TryDodge
    \/ EnemyUpdateAttack
    \/ ApplyDamage
    \/ ProcessEvents

SpecDodge == InitDodge /\ [][NextDodge]_vars

(***************************************************************************)
(* The boss (boss.py) and its telegraphs (telegraphs.py).  None is -1 for   *)
(* an id and "None" for a telegraph type.                                  *)
(***************************************************************************)
\* Python's truth value of an optional id: None and 0 are false
truthy(id) == id # -1 /\ id # 0

\* The EnemyConfig of the goblin chief, with the cooldowns cds of dash, slam
\* and summon: phase 2 from half of max_hp down, telegraphs of 0.5 s, a slam
\* of 20 damage within 150 px, a summon of one small slime 100 px away
BossConfig(cds) ==
    [health |-> 100, damage |-> 20, phase_2_threshold_x10 |-> 5,
     dash |-> [cooldown |-> cds[1], telegraph_duration |-> 2, dash_speed |-> 400],
     slam |-> [cooldown |-> cds[2], telegraph_duration |-> 2, damage |-> 20,
               phase_2_damage_multiplier_x10 |-> 15, range |-> 150,
               phase_2_range_multiplier_x10 |-> 12],
     summon |-> [cooldown |-> cds[3], telegraph_duration |-> 2, waves |-> 1,
                 enemies_per_wave |-> 1, enemy_type |-> "slime_small",
                 spawn_radius |-> 100]]

\* create_enemy for the goblin chief
create_boss_components(x, y, config) ==
    [Transform |-> [x |-> x, y |-> y, dx |-> 0, dy |-> 0],
     Health |-> [max_hp |-> config.health, hp |-> config.health],
     Damage |-> [base |-> config.damage, bonus_damage |-> 0,
                 crit_chance_x10 |-> 0, crit_multiplier_x10 |-> 20],
     Collider |-> [width |-> 28, height |-> 28],
     Faction |-> "boss",
     AI |-> [state |-> "idle", state_timer |-> 0, agro_radius |-> 200,
             attack_range |-> 60, telegraph_duration |-> 0,
             telegraph_type |-> "None"],
     Enemy |-> [enemy_type |-> "goblin_chief"],
     StatusEffects |-> <<>>]

\* boss_health.hp <= boss_health.max_hp * phase_2_threshold
phase_2(health, config) ==
    10 * health.hp <= health.max_hp * config.phase_2_threshold_x10

\* The test that ends a telegraph, made before the duration has run out
telegraph_over_early(duration) == duration <= 1

\* boss_ai.telegraph_duration <= 0
telegraph_over(duration) == duration <= 0

\* self.arena = None
no_arena ==
    [exists |-> FALSE, is_active |-> FALSE, is_closed |-> FALSE, close_progress |-> 0]

\* BossArena.__init__ and close_gates: the four gates close together
closed_arena ==
    [exists |-> TRUE, is_active |-> TRUE, is_closed |-> TRUE, close_progress |-> 0]

\* if self.arena: self.arena.open_gates()
open_gates(arena) ==
    IF ~arena.exists THEN arena
    ELSE [arena EXCEPT !.is_active = FALSE, !.is_closed = FALSE,
                       !.close_progress = 0]

\* if self.arena: self.arena.update(dt), with close_duration 1.0 s
arena_update(arena, dt) ==
    IF arena.exists /\ arena.is_closed /\ arena.close_progress < 4
    THEN [arena EXCEPT !.close_progress = Min(4, @ + dt)]
    ELSE arena

\* TelegraphSystem.add_dash_telegraph, add_slam_telegraph, add_summon_telegraph
add_telegraph(tele, telegraph_type, position, duration) ==
    Append(tele, [telegraph_type |-> telegraph_type, position |-> position,
                  duration |-> duration, remaining_time |-> duration])

\* TelegraphSystem.update(dt)
telegraph_update(tele, dt) ==
    LET aged == [i \in DOMAIN tele |-> [tele[i] EXCEPT !.remaining_time = @ - dt]]
        is_active_telegraph(t) == t.remaining_time > 0
    IN  SelectSeq(aged, is_active_telegraph)

\* BossSystem._start_boss_telegraph: [ents, tele]
start_boss_telegraph(ents, tele, boss_id, player_id, attack_type, config) ==
    LET same == [ents |-> ents, tele |-> tele]
        transform == ents[boss_id].Transform
        telegraph_duration == config[attack_type].telegraph_duration
    IN  IF ~(truthy(player_id) /\ player_id \in DOMAIN ents) THEN same
        ELSE IF ~has_component(ents[player_id], "Transform") THEN same
        ELSE
          LET pt == ents[player_id].Transform
              added == IF attack_type = "slam" /\ pt.x = transform.x /\ pt.y = transform.y
                       THEN tele
                       ELSE add_telegraph(tele, attack_type,
                                          <<transform.x, transform.y>>,
                                          telegraph_duration)
          IN  [ents |-> [ents EXCEPT ![boss_id].AI.telegraph_type = attack_type,
                                     ![boss_id].AI.telegraph_duration =
                                         telegraph_duration],
               tele |-> added]

\* BossSystem._execute_boss_attack; spawn is the direction (1 or -1 along x)
\* the summon's random angle gives.  W is [ents, queue, next_id]
execute_boss_attack(W, boss_id, player_id, attack_type, config, spawn) ==
    LET boss == W.ents[boss_id]
        transform == boss.Transform
        has_player == /\ truthy(player_id) /\ player_id \in DOMAIN W.ents
                      /\ has_component(W.ents[player_id], "Transform")
    IN
    IF attack_type = "dash"
    THEN IF has_player
         THEN LET dx == W.ents[player_id].Transform.x - transform.x
                  dy == W.ents[player_id].Transform.y - transform.y
              IN  IF dx # 0 \/ dy # 0
                  THEN [W EXCEPT
                           !.ents[boss_id].Transform.dx =
                               toward(dx, dy, config.dash.dash_speed).dx,
                           !.ents[boss_id].Transform.dy =
                               toward(dx, dy, config.dash.dash_speed).dy]
                  ELSE W
         ELSE W
    ELSE IF attack_type = "slam"
    THEN LET in_phase_2 == has_component(boss, "Health")
                               /\ phase_2(boss.Health, config)
             damage == IF in_phase_2
                       THEN (config.slam.damage
                                * config.slam.phase_2_damage_multiplier_x10) \div 10
                       ELSE config.slam.damage
             range_x10 == IF in_phase_2
                          THEN config.slam.range
                                   * config.slam.phase_2_range_multiplier_x10
                          ELSE config.slam.range * 10
         IN  IF has_player
             THEN LET dx == W.ents[player_id].Transform.x - transform.x
                      dy == W.ents[player_id].Transform.y - transform.y
                      hit == apply_damage([ents |-> W.ents, queue |-> W.queue],
                                          player_id, damage, boss_id, FALSE, FALSE)
                  IN  IF 100 * (dx * dx + dy * dy) <= range_x10 * range_x10
                      THEN [W EXCEPT !.ents = hit.W.ents, !.queue = hit.W.queue]
                      ELSE W
             ELSE W
    ELSE IF attack_type = "summon"
    THEN [W EXCEPT !.ents = (W.next_id :>
                                create_enemy_components(
                                    transform.x + spawn * config.summon.spawn_radius,
                                    transform.y, config.summon.enemy_type))
                             @@ W.ents,
                   !.next_id = @ + 1]
    ELSE W

\* BossSystem.update(dt, player_id):
\* [ents, queue, next_id, bs, tele, chosen, executed]
boss_update(ents, queue, nid, bs, tele, dt, player_id, spawn) ==
    LET out(e, q, n, b, t, chosen, executed) ==
            [ents |-> e, queue |-> q, next_id |-> n, bs |-> b, tele |-> t,
             chosen |-> chosen, executed |-> executed]
        config == bs.boss_config
    IN
    IF ~truthy(bs.boss_id) THEN out(ents, queue, nid, bs, tele, "none", "none")
    ELSE IF bs.boss_id \notin DOMAIN ents
    THEN out(ents, queue, nid,
             [bs EXCEPT !.boss_id = -1, !.arena = open_gates(@)],
             tele, "none", "none")
    ELSE
      LET bs1 == [bs EXCEPT
                     !.intro_timer = IF bs.is_intro_active THEN @ + dt ELSE @,
                     !.is_intro_active =
                         @ /\ ~(bs.intro_timer + dt >= bs.intro_duration),
                     !.arena = arena_update(@, dt)]
          boss == ents[bs.boss_id]
          ai == boss.AI
      IN
      IF ~( /\ has_component(boss, "Transform") /\ has_component(boss, "AI")
            /\ has_component(boss, "Health") /\ has_component(boss, "Faction") )
      THEN out(ents, queue, nid, bs1, tele, "none", "none")
      ELSE IF ai.telegraph_duration > 0
      THEN LET ents1 == [ents EXCEPT ![bs.boss_id].AI.telegraph_duration = @ - dt]
           IN  IF telegraph_over(ai.telegraph_duration - dt)
               THEN LET W == execute_boss_attack(
                                 [ents |-> ents1, queue |-> queue, next_id |-> nid],
                                 bs.boss_id, player_id, ai.telegraph_type,
                                 config, spawn)
                    IN  out([W.ents EXCEPT ![bs.boss_id].AI.telegraph_type = "None",
                                           ![bs.boss_id].AI.state_timer = 0],
                            W.queue, W.next_id, bs1, tele, "none",
                            ai.telegraph_type)
               ELSE out(ents1, queue, nid, bs1, tele, "none", "none")
      ELSE
        LET chosen == IF ai.state_timer >= config.dash.cooldown THEN "dash"
                      ELSE IF phase_2(boss.Health, config)
                              /\ ai.state_timer >= config.slam.cooldown THEN "slam"
                      ELSE IF phase_2(boss.Health, config)
                              /\ ai.state_timer >= config.summon.cooldown THEN "summon"
                      ELSE "none"
            r == start_boss_telegraph(ents, tele, bs.boss_id, player_id, chosen,
                                      config)
        IN  IF chosen = "none"
            THEN out(ents, queue, nid, bs1, tele, "none", "none")
            ELSE out(r.ents, queue, nid, bs1, r.tele, chosen, "none")

(***************************************************************************)
(* The boss specification: the player 100 px to the right of the goblin    *)
(* chief, which is at full or at half health.  The player is the first     *)
(* entity of the store (id 0), as in the scene, or the second, after a     *)
(* loot item.  start_boss_fight, BossSystem.update, TelegraphSystem.update *)
(* and on_boss_death are called in any order.                              *)
(***************************************************************************)
MaxBossTime == 6

\* The cooldowns of dash, slam and summon: the defaults 4 s, 3 s and 10 s,
\* with one of them, or none, at 0
BossCooldowns == {<<0, 12, 40>>, <<16, 0, 40>>, <<16, 12, 0>>, <<16, 12, 40>>}

\* create_loot_item: an entity that takes no part in a fight
LootEntity == [Transform |-> [x |-> 300, y |-> 300, dx |-> 0, dy |-> 0]]

NoBossCall ==
    [op |-> "none", dt |-> 0, elapsed |-> 0, player_id |-> -1, reached |-> FALSE,
     chosen |-> "none", executed |-> "none", starts |-> 0, execs |-> 0,
     pre_ents |-> <<>>]

BossOther == <<healthVars, last, meleeVars, busVars, aiVars, sceneVars, unitVars>>

InitBoss ==
    /\ IdleHealth
    /\ IdleUnit
    /\ IdleMelee
    /\ IdleBus
    /\ IdleAI
    /\ IdleScene
    /\ \E cds \in BossCooldowns, loot_first \in BOOLEAN, hp \in {100, 50} :
          LET boss == [create_boss_components(0, 0, BossConfig(cds))
                          EXCEPT !.Health.hp = hp]
          IN  /\ entities = IF loot_first
                            THEN 0 :> LootEntity @@ 1 :> PlayerWithStatus(100, 0)
                                 @@ 2 :> boss
                            ELSE 0 :> PlayerWithStatus(100, 0) @@ 1 :> boss
              /\ next_id = IF loot_first THEN 3 ELSE 2
              /\ boss_system = [boss_id |-> -1, boss_config |-> BossConfig(cds),
                                arena |-> no_arena, intro_timer |-> 0,
                                intro_duration |-> 8, is_intro_active |-> FALSE,
                                boss_music_playing |-> FALSE]
    /\ event_queue = <<>>
    /\ last = NoCall
    /\ active_telegraphs = <<>>
    /\ boss_last = NoBossCall

\* The id of the goblin chief
BossIds == {e \in DOMAIN entities :
               has_component(entities[e], "Faction") /\ entities[e].Faction = "boss"}

\* BossSystem.start_boss_fight(boss_id, arena_center_x, arena_center_y); the
\* intro lasts the default 2.0 s
StartBossFight ==
    \E boss_id \in BossIds :
        /\ boss_system.boss_id = -1
        /\ boss_system' = [boss_system EXCEPT !.boss_id = boss_id,
                                              !.arena = closed_arena,
                                              !.is_intro_active = TRUE,
                                              !.intro_timer = 0,
                                              !.intro_duration = 8,
                                              !.boss_music_playing = TRUE]
        /\ boss_last' = [boss_last EXCEPT !.op = "start_boss_fight",
                                          !.reached = FALSE,
                                          !.chosen = "none", !.executed = "none",
                                          !.pre_ents = entities]
        /\ UNCHANGED <<entities, next_id, event_queue, active_telegraphs, BossOther>>

\* BossSystem.update(dt, player_id), called with the player's id
BossUpdate ==
    \E dt \in AIDts, spawn \in {-1, 1} :
        LET player_id == find_player(entities)
            r == boss_update(entities, event_queue, next_id, boss_system,
                             active_telegraphs, dt, player_id, spawn)
        IN  /\ boss_last.elapsed + dt <= MaxBossTime
            /\ entities' = r.ents
            /\ event_queue' = r.queue
            /\ next_id' = r.next_id
            /\ boss_system' = r.bs
            /\ active_telegraphs' = r.tele
            /\ boss_last' = [op |-> "boss_update", dt |-> dt,
                             elapsed |-> boss_last.elapsed + dt,
                             player_id |-> player_id,
                             reached |-> /\ truthy(boss_system.boss_id)
                                         /\ boss_system.boss_id \in DOMAIN entities,
                             chosen |-> r.chosen, executed |-> r.executed,
                             starts |-> boss_last.starts
                                        + (IF /\ r.chosen # "none"
                                              /\ r.ents[boss_system.boss_id].AI
                                                     .telegraph_type = r.chosen
                                           THEN 1 ELSE 0),
                             execs |-> boss_last.execs
                                       + (IF r.executed # "none" THEN 1 ELSE 0),
                             pre_ents |-> entities]
            /\ UNCHANGED BossOther

\* TelegraphSystem.update(dt)
TelegraphUpdate ==
    \E dt \in AIDts :
        /\ active_telegraphs # <<>>
        /\ active_telegraphs' = telegraph_update(active_telegraphs, dt)
        /\ boss_last' = [boss_last EXCEPT !.op = "telegraph_update", !.dt = dt,
                                          !.reached = FALSE,
                                          !.chosen = "none", !.executed = "none",
                                          !.pre_ents = entities]
        /\ UNCHANGED <<entities, next_id, event_queue, boss_system, BossOther>>

\* BossSystem.on_boss_death
OnBossDeath ==
    /\ boss_system.boss_id # -1
    /\ boss_system' = [boss_system EXCEPT !.boss_id = -1,
                                          !.arena = open_gates(@),
                                          !.boss_music_playing = FALSE]
    /\ boss_last' = [boss_last EXCEPT !.op = "on_boss_death",
                                      !.reached = FALSE,
                                      !.chosen = "none", !.executed = "none",
                                      !.pre_ents = entities]
    /\ UNCHANGED <<entities, next_id, event_queue, active_telegraphs, BossOther>>

NextBoss ==
    \/ StartBossFight
    \/ BossUpdate
    \/ TelegraphUpdate
    \/ OnBossDeath

SpecBoss == InitBoss /\ [][NextBoss]_vars

(***************************************************************************)
(* Level (level.py): width and height in tiles, and the tiles that are not *)
(* walkable.                                                               *)
(***************************************************************************)
TileSize == 32

Abs(n) == IF n < 0 THEN -n ELSE n

\* Level.is_walkable: a tile inside the level whose walkable flag is set
is_walkable(level, x, y) ==
    /\ 0 <= x /\ x < level.width
    /\ 0 <= y /\ y < level.height
    /\ <<x, y>> \notin level.blocked

(***************************************************************************)
(* GameplayScene (scene.py).  The level is an open floor, or a floor with  *)
(* one wall tile between the slime and the player.  No movement key is     *)
(* held, so the player stands still; nothing is in flight and no loot lies *)
(* on the floor.                                                           *)
(***************************************************************************)
MaxSceneTime == 5

\* The x offsets random.uniform(-20, 20) gives the two small slimes of a split
SplitOffsets == {<<-20, 20>>, <<20, -20>>}

\* SlimeStateMachine.on_death: [ents, next_id].  random.random() is below a
\* split_chance of 1.0 and never below one of 0.0
RECURSIVE on_death(_, _, _, _)
on_death(W, entity_id, config, offsets) ==
    IF config.split_chance_x10 < 10 \/ offsets = <<>> THEN W
    ELSE on_death([W EXCEPT !.ents = (W.next_id :>
                                         create_enemy_components(
                                             W.ents[entity_id].Transform.x
                                                 + Head(offsets),
                                             W.ents[entity_id].Transform.y,
                                             "slime_small"))
                                      @@ W.ents,
                            !.next_id = @ + 1],
                  entity_id, config, Tail(offsets))

\* GameplayScene._on_enemy_killed.  st is [ents, next_id, sms, bs, scene]
on_enemy_killed(st, event, offsets) ==
    IF ~(truthy(event.entity_id) /\ event.entity_id \in DOMAIN st.ents) THEN st
    ELSE
      LET entity == st.ents[event.entity_id]
          split == IF /\ has_component(entity, "Enemy")
                      /\ entity.Enemy.enemy_type \in {"slime", "slime_small"}
                      /\ event.entity_id \in DOMAIN st.sms
                   THEN on_death([ents |-> st.ents, next_id |-> st.next_id],
                                 event.entity_id,
                                 ConfigOf(entity.Enemy.enemy_type),
                                 SubSeq(offsets, 1,
                                        ConfigOf(entity.Enemy.enemy_type).split_count))
                   ELSE [ents |-> st.ents, next_id |-> st.next_id]
          st1 == [st EXCEPT !.ents = split.ents, !.next_id = split.next_id]
      IN  IF has_component(entity, "Faction") /\ entity.Faction = "boss"
          THEN [st1 EXCEPT !.bs.boss_id = -1, !.bs.arena = open_gates(@),
                           !.bs.boss_music_playing = FALSE]
          ELSE st1

\* GameplayScene._on_level_up
on_level_up(st, event) ==
    IF event.entity_id = st.scene.player_id /\ st.scene.player_id \in DOMAIN st.ents
    THEN [st EXCEPT !.scene.perk_selection_shown = TRUE]
    ELSE st

\* The handlers GameplayScene subscribes, applied to one event
scene_handle(st, event, offsets) ==
    IF event.event_type = "enemy_killed" THEN on_enemy_killed(st, event, offsets)
    ELSE IF event.event_type = "level_up" THEN on_level_up(st, event)
    ELSE IF event.event_type = "player_died"
    THEN [st EXCEPT !.scene.next_scene = "gameover"]
    ELSE IF event.event_type = "victory"
    THEN [st EXCEPT !.scene.next_scene = "victory"]
    ELSE st

\* event_bus.process() with the scene's handlers, none of which emits
RECURSIVE scene_process(_, _, _)
scene_process(st, queue, offsets) ==
    IF queue = <<>> THEN st
    ELSE scene_process(scene_handle(st, queue_pop(queue).event, offsets),
                       queue_pop(queue).rest, offsets)

\* PlayerController.update with no key held and no dodge under way
player_controller_update(ents, player_id) ==
    IF player_id \notin DOMAIN ents THEN ents
    ELSE IF ~( has_component(ents[player_id], "Transform")
               /\ has_component(ents[player_id], "Weapon") ) THEN ents
    ELSE [ents EXCEPT ![player_id].Transform.dx = 0,
                      ![player_id].Transform.dy = 0]

\* PlayerController.can_attack: the buffered attack is consumed
controller_can_attack(ents, player_id, attack_buffered, current_time) ==
    /\ player_id \in DOMAIN ents
    /\ has_component(ents[player_id], "Weapon")
    /\ attack_buffered
    /\ can_attack(ents[player_id].Weapon, current_time)

\* The loop of GameplayScene.update over get_entities_with(StatusEffects)
scene_status_update(ents, dt) ==
    [e \in DOMAIN ents |->
        IF has_component(ents[e], "StatusEffects")
        THEN [ents[e] EXCEPT !.StatusEffects = status_update(@, dt)]
        ELSE ents[e]]

\* The camera position once the player is followed, with no shake
camera_follow(sc, ents) ==
    IF /\ truthy(sc.player_id) /\ sc.player_id \in DOMAIN ents
       /\ has_component(ents[sc.player_id], "Transform")
    THEN [sc EXCEPT !.camera_x = ents[sc.player_id].Transform.x - 640,
                    !.camera_y = ents[sc.player_id].Transform.y - 360]
    ELSE sc

\* The entities the check_hits calls of a tick return
SceneHits(hitboxes, ents, frames) ==
    {e \in DOMAIN ents :
        \E a \in DOMAIN frames : InSeq(e, check_hits(hitboxes, a, ents, {}))}

\* The wall check of the player, made when player_id is truthy: on a tile
\* that is not walkable the position is clamped to the level's rectangle
player_wall_collision(ents, player_id, level) ==
    IF ~truthy(player_id) \/ player_id \notin DOMAIN ents THEN ents
    ELSE IF ~( has_component(ents[player_id], "Transform")
               /\ has_component(ents[player_id], "Collider") ) THEN ents
    ELSE LET t == ents[player_id].Transform
             col == ents[player_id].Collider
         IN  IF is_walkable(level, t.x \div TileSize, t.y \div TileSize) THEN ents
             ELSE [ents EXCEPT
                      ![player_id].Transform.x =
                          Max(0, Min(level.width * TileSize - col.width, t.x)),
                      ![player_id].Transform.y =
                          Max(0, Min(level.height * TileSize - col.height, t.y))]

\* The wall check of the enemies: on a tile that is not walkable the
\* velocity is set to zero
enemy_wall_collisions(ents, level) ==
    [e \in DOMAIN ents |->
        IF /\ has_component(ents[e], "Faction")
           /\ has_component(ents[e], "Transform")
           /\ has_component(ents[e], "Collider")
           /\ ents[e].Faction # "player"
           /\ ~is_walkable(level, ents[e].Transform.x \div TileSize,
                           ents[e].Transform.y \div TileSize)
        THEN [ents[e] EXCEPT !.Transform.dx = 0, !.Transform.dy = 0]
        ELSE ents[e]]

\* The steps of one GameplayScene.update, named after the call made
SceneSteps(ents0, ents_end, player_id, did_attack) ==
    <<"events", "input">>
    \o (IF did_attack THEN <<"attack">> ELSE <<>>)
    \o <<"movement">>
    \o (IF \E e \in DOMAIN ents0 : /\ has_component(ents0[e], "Transform")
                                   /\ has_component(ents0[e], "StatusEffects")
        THEN <<"status_decay">> ELSE <<>>)
    \o <<"projectile", "attack_frames", "effects", "telegraph", "puddle", "ai", "boss">>
    \o (IF \E e \in DOMAIN ents_end : has_component(ents_end[e], "StatusEffects")
        THEN <<"status_decay">> ELSE <<>>)
    \o (IF truthy(player_id) THEN <<"wall_collision_player">> ELSE <<>>)
    \o <<"wall_collision_enemies">>
    \o (IF truthy(player_id) THEN <<"pickup">> ELSE <<>>)
    \o <<"camera_shake">>
    \o (IF truthy(player_id) THEN <<"camera_follow">> ELSE <<>>)

SceneOther == <<healthVars, last, swings, busVars, ai_last, boss_last, unitVars>>

\* The levels of the scene: 10 by 10 tiles, all of them floor, or with a wall
\* at tile (3, 0)
SceneLevels ==
    {[width |-> 10, height |-> 10, blocked |-> b] : b \in {{}, {<<3, 0>>}}}

\* Where the level generator puts the slime: within reach of the player's
\* weapon, or beyond it and inside the slime's agro radius
SlimeSpots == {<<40, 0>>, <<150, 0>>}

\* GameplayScene.__init__ and _init_level: the player is created first, then
\* a slime to its right
InitSceneWith(effects) ==
    /\ IdleHealth
    /\ IdleUnit
    /\ IdleBus
    /\ \E weapon_type \in {"sword", "spear"}, spot \in SlimeSpots :
          entities = 0 :> (PlayerWith(weapon_type)
                           @@ [PlayerWithStatus(0, 0)
                                  EXCEPT !.StatusEffects = effects])
                     @@ 1 :> create_enemy_components(spot[1], spot[2], "slime")
    /\ next_id = 2
    /\ event_queue = <<>>
    /\ last = NoCall
    /\ active_hitboxes = <<>>
    /\ frame_counter = 0
    /\ attack_frames = <<>>
    /\ swings = 0
    /\ blows = [e \in 0..1 |-> 0]
    /\ state_machines = <<>>
    /\ puddles = <<>>
    /\ ai_last = [op |-> "idle"]
    /\ boss_system = [boss_id |-> -1, boss_config |-> BossConfig(<<16, 12, 40>>),
                      arena |-> no_arena, intro_timer |-> 0,
                      intro_duration |-> 8, is_intro_active |-> FALSE,
                      boss_music_playing |-> FALSE]
    /\ active_telegraphs = <<>>
    /\ boss_last = [op |-> "idle"]
    /\ \E level \in SceneLevels :
          scene = [player_id |-> 0, current_time |-> 0, next_scene |-> "None",
                   perk_selection_shown |-> FALSE, camera_x |-> 0, camera_y |-> 0,
                   level |-> level]
    /\ tick_log = <<>>
    /\ scene_last = [op |-> "init", attack |-> FALSE, delivered |-> <<>>,
                     pre_ents |-> <<>>, pre_next_id |-> 0,
                     kinds |-> (1 :> "slime")]

\* The dt of a tick: 0.25 s
SceneDt == 1

InitScene == InitSceneWith(<<>>)

\* The effect a slime's puddle leaves on the player: PuddleSystem.update
\* refreshed it to the puddle's duration on the puddle's last tick, and the
\* scene's loop over the status effects then aged it by that tick's dt
DriedPuddleEffect ==
    [effect_type |-> "slowed",
     duration |-> SlimeConfig.slime_puddle_duration - SceneDt,
     value |-> SlimeConfig.slime_puddle_slow_x10]

\* The scene on the tick after a puddle under the player has dried up
InitSceneSlowed == InitSceneWith(<<DriedPuddleEffect>>)

\* The tick up to movement_system.update: [st, did_attack, att, ents], where
\* st is the state event_bus.process() leaves, att the outcome of
\* perform_attack and ents the store after movement_system.update
scene_first_half(attack, mouse_pos, offsets, dt) ==
    LET now == scene.current_time + dt
        player_id == scene.player_id
        st == scene_process([ents |-> entities, next_id |-> next_id,
                             sms |-> state_machines, bs |-> boss_system,
                             scene |-> [scene EXCEPT !.current_time = now]],
                            event_queue, offsets)
        controlled == player_controller_update(st.ents, player_id)
        did_attack == controller_can_attack(controlled, player_id, attack, now)
        att == IF did_attack
               THEN weapon_perform_attack(controlled, active_hitboxes, attack_frames,
                                          player_id, now,
                                          <<mouse_pos[1] + st.scene.camera_x,
                                            mouse_pos[2] + st.scene.camera_y>>)
               ELSE [ents |-> controlled, hitboxes |-> active_hitboxes,
                     frames |-> attack_frames, outcome |-> "none"]
    IN  [st |-> st, did_attack |-> did_attack, att |-> att,
         ents |-> movement_update(att.ents, dt)]

\* The tick from update_attack_frames to the wall checks, on the
\* store ents and the hitboxes of this frame: [melee, ai, boss, ents]
scene_second_half(h, hitboxes, crit, dodge, dt) ==
    LET melee == attackers_loop([ents |-> h.ents, queue |-> <<>>,
                                 frames |-> h.att.frames,
                                 blows |-> [e \in DOMAIN h.ents |->
                                               IF e \in DOMAIN blows
                                               THEN blows[e] ELSE 0],
                                 hits |-> <<>>, calls |-> <<>>],
                                SortedIds(DOMAIN h.att.frames), hitboxes, crit, dodge)
        pud == puddle_update(melee.ents, puddles, dt)
        ai == enemy_ai_update(pud.ents, melee.queue, h.st.sms, pud.puddles, dt,
                              scene.player_id, {})
        boss == boss_update(ai.ents, ai.queue, h.st.next_id, h.st.bs,
                            telegraph_update(active_telegraphs, dt), dt,
                            scene.player_id, 1)
    IN  [melee |-> melee, ai |-> ai, boss |-> boss,
         ents |-> enemy_wall_collisions(
                      player_wall_collision(scene_status_update(boss.ents, dt),
                                            scene.player_id, scene.level),
                      scene.level)]

\* GameplayScene.update(dt); attack tells whether the attack key was pressed
\* since the last tick.
SceneUpdate ==
    \E attack \in BOOLEAN, mouse_pos \in MousePositions, offsets \in SplitOffsets :
      \E h \in {scene_first_half(attack, mouse_pos, offsets, SceneDt)} :
        \E hitboxes \in {hitbox_update(h.att.hitboxes, frame_counter + 1)} :
          \E hit \in {SceneHits(hitboxes, h.ents, h.att.frames)} :
            \E crit \in {S \in SUBSET hit :
                           \A e \in hit :
                               (e \in S) \in CritOutcomes(h.ents[scene.player_id].Damage)},
               dodge \in SUBSET {e \in hit : h.ents[e].Faction = "enemy"} :
              \E r \in {scene_second_half(h, hitboxes, crit, dodge, SceneDt)} :
                /\ scene.current_time + SceneDt <= MaxSceneTime
                /\ entities' = r.ents
                /\ next_id' = r.boss.next_id
                /\ event_queue' = r.boss.queue
                /\ active_hitboxes' = hitboxes
                /\ frame_counter' = frame_counter + 1
                /\ attack_frames' = r.melee.frames
                /\ blows' = r.melee.blows
                /\ state_machines' = r.ai.sms
                /\ puddles' = r.ai.puddles
                /\ boss_system' = r.boss.bs
                /\ active_telegraphs' = r.boss.tele
                /\ scene' = camera_follow(h.st.scene, r.ents)
                /\ tick_log' = SceneSteps(h.att.ents, r.boss.ents, scene.player_id,
                                          h.did_attack)
                /\ scene_last' = [op |-> "update", attack |-> attack,
                                  delivered |-> event_queue,
                                  pre_ents |-> entities, pre_next_id |-> next_id,
                                  kinds |-> [e \in {k \in DOMAIN r.ents :
                                                      has_component(r.ents[k], "Enemy")}
                                                |-> r.ents[e].Enemy.enemy_type]
                                            @@ scene_last.kinds]
                /\ UNCHANGED SceneOther

NextScene == SceneUpdate

SpecScene == InitScene /\ [][NextScene]_vars

\* The scene run from the tick after a puddle has dried up
SpecSceneSlowed == InitSceneSlowed /\ [][NextScene]_vars

(***************************************************************************)
(* Pathfinder (pathfinding.py) over a Level (level.py).  Costs are held in *)
(* thousandths: a diagonal step costs 1414, an orthogonal step 1000.       *)
(***************************************************************************)
\* The side of the square levels the paths are searched on
PathSize == 4

DiagonalCost == 1414
OrthogonalCost == 1000
MaxRadius == 5

\* Pathfinder.heuristic: the Manhattan distance
heuristic(x1, y1, x2, y2) == OrthogonalCost * (Abs(x1 - x2) + Abs(y1 - y2))

\* The directions get_neighbors tries, in its order
Directions ==
    <<<<0, 1>>, <<1, 0>>, <<0, -1>>, <<-1, 0>>, <<1, 1>>, <<-1, 1>>, <<1, -1>>, <<-1, -1>>>>

\* A get_neighbors that knows the four orthogonal directions only.
get_neighbors_orthogonal(level, x, y) ==
    LET all == [i \in 1..4 |-> <<x + Directions[i][1], y + Directions[i][2]>>]
    IN  SelectSeq(all, LAMBDA t : is_walkable(level, t[1], t[2]))

\* Pathfinder.get_neighbors: the walkable neighbours, in the order of Directions
get_neighbors(level, x, y) ==
    LET all == [i \in 1..Len(Directions) |-> <<x + Directions[i][1], y + Directions[i][2]>>]
    IN  SelectSeq(all, LAMBDA t : is_walkable(level, t[1], t[2]))

\* The offsets _find_nearest_walkable tries for one radius: dx ascending, then
\* dy ascending, kept when |dx| + |dy| = radius
ring(radius) ==
    LET side == 2 * radius + 1
        all == [i \in 1..(side * side) |->
                   <<((i - 1) \div side) - radius, ((i - 1) % side) - radius>>]
    IN  SelectSeq(all, LAMBDA d : Abs(d[1]) + Abs(d[2]) = radius)

\* Pathfinder._find_nearest_walkable from radius on: the first walkable tile
\* of the nearest ring, or (x, y) itself when no ring up to MaxRadius has one
RECURSIVE find_nearest_walkable(_, _, _, _)
find_nearest_walkable(level, x, y, radius) ==
    IF radius > MaxRadius THEN <<x, y>>
    ELSE LET found == SelectSeq(ring(radius),
                                LAMBDA d : is_walkable(level, x + d[1], y + d[2]))
         IN  IF found # <<>> THEN <<x + found[1][1], y + found[1][2]>>
             ELSE find_nearest_walkable(level, x, y, radius + 1)

\* Node.f and Node.__lt__
node_f(node) == node.g + node.h
node_lt(a, b) == node_f(a) < node_f(b)

\* heapq._siftdown, on a heap held as a sequence (position p of the list is
\* index p + 1): newitem climbs from pos while it is smaller than its parent
RECURSIVE siftdown(_, _, _, _)
siftdown(heap, startpos, pos, newitem) ==
    IF pos > startpos /\ node_lt(newitem, heap[pos \div 2])
    THEN siftdown([heap EXCEPT ![pos] = heap[pos \div 2]], startpos, pos \div 2, newitem)
    ELSE [heap EXCEPT ![pos] = newitem]

\* heapq._siftup: the smaller child is moved up until a leaf is hit, then
\* newitem is put there and sifted down
RECURSIVE siftup(_, _, _, _)
siftup(heap, startpos, pos, newitem) ==
    LET childpos == 2 * pos
        rightpos == childpos + 1
        child == IF rightpos <= Len(heap) /\ ~node_lt(heap[childpos], heap[rightpos])
                 THEN rightpos ELSE childpos
    IN  IF childpos <= Len(heap)
        THEN siftup([heap EXCEPT ![pos] = heap[child]], startpos, child, newitem)
        ELSE siftdown([heap EXCEPT ![pos] = newitem], startpos, pos, newitem)

\* heapq.heappush
heappush(heap, item) == siftdown(Append(heap, item), 1, Len(heap) + 1, item)

\* heapq.heappop: [item, heap]
heappop(heap) ==
    LET lastelt == heap[Len(heap)]
        rest == SubSeq(heap, 1, Len(heap) - 1)
    IN  IF rest = <<>> THEN [item |-> lastelt, heap |-> rest]
        ELSE [item |-> heap[1], heap |-> siftup(rest, 1, 1, lastelt)]

\* The for loop over get_neighbors: every neighbour that is not closed is
\* pushed with the cost of the step added.  A node holds the tiles from the
\* start to itself in place of the parent pointers.
RECURSIVE push_neighbors(_, _, _, _, _, _)
push_neighbors(open_set, closed_set, current, neighbors, goal_x, goal_y) ==
    IF neighbors = <<>> THEN open_set
    ELSE LET n == Head(neighbors)
             is_diagonal == Abs(n[1] - current.x) + Abs(n[2] - current.y) = 2
             cost == IF is_diagonal THEN DiagonalCost ELSE OrthogonalCost
             neighbor == [x |-> n[1], y |-> n[2], g |-> current.g + cost,
                          h |-> heuristic(n[1], n[2], goal_x, goal_y),
                          tiles |-> Append(current.tiles, n)]
         IN  push_neighbors(IF n \in closed_set THEN open_set
                            ELSE heappush(open_set, neighbor),
                            closed_set, current, Tail(neighbors), goal_x, goal_y)

\* A conversion to world coordinates that gives the tile's top left corner.
tile_corner(t) == <<t[1] * TileSize, t[2] * TileSize>>

\* The centre of a tile, in world coordinates
tile_centre(t) == <<t[1] * TileSize + TileSize \div 2, t[2] * TileSize + TileSize \div 2>>

\* The while loop of find_path: the path found, in world coordinates, or
\* <<>> when the open set runs empty
RECURSIVE search(_, _, _, _, _)
search(level, open_set, closed_set, goal_x, goal_y) ==
    IF open_set = <<>> THEN <<>>
    ELSE LET popped == heappop(open_set)
             current == popped.item
         IN  IF <<current.x, current.y>> \in closed_set
             THEN search(level, popped.heap, closed_set, goal_x, goal_y)
             ELSE IF current.x = goal_x /\ current.y = goal_y
             THEN [i \in 1..Len(current.tiles) |-> tile_centre(current.tiles[i])]
             ELSE search(level,
                         push_neighbors(popped.heap,
                                        closed_set \cup {<<current.x, current.y>>},
                                        current,
                                        get_neighbors(level, current.x, current.y),
                                        goal_x, goal_y),
                         closed_set \cup {<<current.x, current.y>>}, goal_x, goal_y)

\* A tile that is not walkable is replaced by the nearest walkable one
snap(level, t) ==
    IF is_walkable(level, t[1], t[2]) THEN t
    ELSE find_nearest_walkable(level, t[1], t[2], 1)

\* What find_path returns when the search fails, with the tile centre in
\* place of the goal the caller gave.
fallback_snapped(goal_x, goal_y) ==
    <<tile_centre(<<goal_x \div TileSize, goal_y \div TileSize>>)>>

\* What find_path returns when the search fails: the goal the caller gave
fallback(goal_x, goal_y) == <<<<goal_x, goal_y>>>>

\* Pathfinder.find_path: the waypoints, in world coordinates
find_path(level, start_x, start_y, goal_x, goal_y) ==
    LET goal == snap(level, <<goal_x \div TileSize, goal_y \div TileSize>>)
        start == snap(level, <<start_x \div TileSize, start_y \div TileSize>>)
        start_node == [x |-> start[1], y |-> start[2], g |-> 0,
                       h |-> heuristic(start[1], start[2], goal[1], goal[2]),
                       tiles |-> <<start>>]
        path == search(level, heappush(<<>>, start_node), {}, goal[1], goal[2])
    IN  IF path # <<>> THEN path ELSE fallback(goal_x, goal_y)

\* The levels searched: open, every tile blocking, a wall across column 1,
\* and a single blocking tile
PathLevels ==
    LET tiles == (0..(PathSize - 1)) \X (0..(PathSize - 1))
    IN  {[width |-> PathSize, height |-> PathSize, blocked |-> b] :
            b \in {{}, tiles, {t \in tiles : t[1] = 1}, {<<1, 1>>}}}

\* Where in its tile a world position lies: off the centre, or on it
TileOffsets == {9, 16}

\* A Pathfinder on one of the levels, and the arguments of the call: the
\* start at the centre of its tile, the goal at an offset in its own
InitPath ==
    /\ IdleHealth /\ IdleCombat /\ IdleMelee
    /\ IdleBus /\ IdleAI /\ IdleBoss /\ IdleScene
    /\ \E level \in PathLevels, off \in TileOffsets,
          st \in (0..(PathSize - 1)) \X (0..(PathSize - 1)),
          gt \in (0..(PathSize - 1)) \X (0..(PathSize - 1)) :
          unit = [level |-> level,
                  start |-> tile_centre(st),
                  goal |-> <<gt[1] * TileSize + off, gt[2] * TileSize + off>>]
    /\ unit_last = [op |-> "init"]

\* pathfinder.find_path(start_x, start_y, goal_x, goal_y)
FindPath ==
    /\ unit_last' = [op |-> "find_path",
                     path |-> find_path(unit.level, unit.start[1], unit.start[2],
                                        unit.goal[1], unit.goal[2])]
    /\ UNCHANGED <<unit, healthVars, combatVars, meleeVars, busVars, aiVars,
                   bossVars, sceneVars>>

NextPath == FindPath

SpecPath == InitPath /\ [][NextPath]_vars

(***************************************************************************)
(* EntityManager (entities.py) on its own: create_entity, remove_entity    *)
(* and clear in any order.                                                 *)
(***************************************************************************)
\* create_entity is not called once next_id has reached this
MaxIds == 4

\* EntityManager.create_entity: [ents, next_id, id]; the new entity has no
\* component
create_entity(ents, nid) ==
    [ents |-> (nid :> <<>>) @@ ents, next_id |-> nid + 1, id |-> nid]

\* EntityManager.clear: [ents, next_id]
manager_clear == [ents |-> <<>>, next_id |-> 0]

\* EntityManager.__init__; unit_last.issued holds the ids create_entity has
\* returned so far
InitEntities ==
    /\ IdleHealth /\ IdleMelee
    /\ IdleBus /\ IdleAI /\ IdleBoss /\ IdleScene
    /\ entities = <<>>
    /\ next_id = 0
    /\ event_queue = <<>>
    /\ last = [op |-> "idle"]
    /\ unit = [kind |-> "EntityManager"]
    /\ unit_last = [op |-> "init", id |-> -1, issued |-> {}, before |-> {}]

EntitiesOther == <<healthVars, event_queue, last, meleeVars, busVars, aiVars,
                   bossVars, sceneVars, unit>>

\* entity_manager.create_entity()
CreateEntity ==
    /\ next_id < MaxIds
    /\ entities' = create_entity(entities, next_id).ents
    /\ next_id' = create_entity(entities, next_id).next_id
    /\ unit_last' = [op |-> "create_entity",
                     id |-> create_entity(entities, next_id).id,
                     issued |-> unit_last.issued
                                \cup {create_entity(entities, next_id).id},
                     before |-> unit_last.issued]
    /\ UNCHANGED EntitiesOther

\* entity_manager.remove_entity(entity_id), for an id that is held or not
RemoveEntity ==
    \E entity_id \in 0..(MaxIds - 1) :
        /\ entities' = remove_entity(entities, entity_id)
        /\ unit_last' = [unit_last EXCEPT !.op = "remove_entity", !.id = entity_id,
                                          !.before = unit_last.issued]
        /\ UNCHANGED <<next_id, EntitiesOther>>

\* entity_manager.clear()
ManagerClear ==
    /\ entities' = manager_clear.ents
    /\ next_id' = manager_clear.next_id
    /\ unit_last' = [unit_last EXCEPT !.op = "clear", !.id = -1,
                                      !.before = unit_last.issued]
    /\ UNCHANGED EntitiesOther

NextEntities == CreateEntity \/ RemoveEntity \/ ManagerClear

SpecEntities == InitEntities /\ [][NextEntities]_vars

(***************************************************************************)
(* StatusEffects (components.py) on its own: add_effect, remove_effect and *)
(* update in any order.  Durations are in units of 0.25 s.                 *)
(***************************************************************************)
\* The longest duration an effect is added with
MaxDuration == 3

\* The kinds and values of the effects added
EffectKinds == {"slowed", "poison"}
EffectValues == {3, 5}

\* StatusEffects.remove_effect
remove_effect(effects, effect_type) ==
    SelectSeq(effects, LAMBDA e : e.effect_type # effect_type)

\* StatusEffects(): no effect
InitEffects ==
    /\ IdleHealth /\ IdleCombat /\ IdleMelee
    /\ IdleBus /\ IdleAI /\ IdleBoss /\ IdleScene
    /\ unit = [effects |-> <<>>]
    /\ unit_last = [op |-> "init"]

EffectsOther == <<healthVars, combatVars, meleeVars, busVars, aiVars, bossVars,
                  sceneVars>>

\* status.add_effect(StatusEffect(effect_type, duration, value))
AddEffect ==
    \E effect_type \in EffectKinds, duration \in 1..MaxDuration, value \in EffectValues :
        LET effect == [effect_type |-> effect_type, duration |-> duration,
                       value |-> value]
        IN  /\ unit' = [unit EXCEPT !.effects = add_effect(@, effect)]
            /\ unit_last' = [op |-> "add_effect", effect |-> effect,
                             pre |-> unit.effects]
            /\ UNCHANGED EffectsOther

\* status.remove_effect(effect_type)
RemoveEffect ==
    \E effect_type \in EffectKinds :
        /\ unit' = [unit EXCEPT !.effects = remove_effect(@, effect_type)]
        /\ unit_last' = [op |-> "remove_effect", effect_type |-> effect_type,
                         pre |-> unit.effects]
        /\ UNCHANGED EffectsOther

\* status.update(dt)
EffectsUpdate ==
    \E dt \in AIDts :
        /\ unit' = [unit EXCEPT !.effects = status_update(@, dt)]
        /\ unit_last' = [op |-> "update", dt |-> dt, pre |-> unit.effects]
        /\ UNCHANGED EffectsOther

NextEffects == AddEffect \/ RemoveEffect \/ EffectsUpdate

SpecEffects == InitEffects /\ [][NextEffects]_vars

(***************************************************************************)
(* Damage.calculate_damage (components.py) on its own.                     *)
(***************************************************************************)
\* The largest base damage and the largest bonus damage of the component
MaxBase == 9
MaxBonus == 2

\* The crit multipliers of the component, in tenths: 1.0, 1.2, 1.5, 2.0, 2.5
CritMultipliers == {10, 12, 15, 20, 25}

\* Damage(base, crit_multiplier, bonus_damage)
InitDamage ==
    /\ IdleHealth /\ IdleCombat /\ IdleMelee
    /\ IdleBus /\ IdleAI /\ IdleBoss /\ IdleScene
    /\ \E base \in 0..MaxBase, bonus \in 0..MaxBonus, m \in CritMultipliers :
          unit = [base |-> base, bonus_damage |-> bonus, crit_chance_x10 |-> 0,
                  crit_multiplier_x10 |-> m]
    /\ unit_last = [op |-> "init"]

\* damage.calculate_damage(is_crit=True) or (is_crit=False)
CalculateDamage ==
    \E is_crit \in BOOLEAN :
        /\ unit_last' = [op |-> "calculate_damage", is_crit |-> is_crit,
                         damage |-> calculate_damage(unit, is_crit)]
        /\ UNCHANGED <<unit, healthVars, combatVars, meleeVars, busVars, aiVars,
                       bossVars, sceneVars>>

NextDamage == CalculateDamage

SpecDamage == InitDamage /\ [][NextDamage]_vars

(***************************************************************************)
(* InputBuffer (player.py) on its own, with the clock its callers pass as  *)
(* current_time.  Here the unit of time is 0.1 s.                          *)
(***************************************************************************)
\* The clock stops at this time
MaxInputTime == 6

\* The attack key is pressed at most this many times
MaxInputs == 3

\* buffer_time: 0.3 s
BufferTime == 3

\* InputBuffer.buffer_action
buffer_action(buffered_actions, action, current_time) ==
    (action :> current_time) @@ buffered_actions

\* A consume_action that leaves a valid action in the buffer.
consume_action_keep(buffered_actions, action, current_time) ==
    IF action \in DOMAIN buffered_actions
    THEN IF current_time - buffered_actions[action] <= BufferTime
         THEN [buffered_actions |-> buffered_actions, result |-> TRUE]
         ELSE [buffered_actions |-> [a \in DOMAIN buffered_actions \ {action} |->
                                        buffered_actions[a]],
               result |-> FALSE]
    ELSE [buffered_actions |-> buffered_actions, result |-> FALSE]

\* InputBuffer.consume_action: [buffered_actions, result]
consume_action(buffered_actions, action, current_time) ==
    IF action \in DOMAIN buffered_actions
    THEN [buffered_actions |-> [a \in DOMAIN buffered_actions \ {action} |->
                                   buffered_actions[a]],
          result |-> current_time - buffered_actions[action] <= BufferTime]
    ELSE [buffered_actions |-> buffered_actions, result |-> FALSE]

\* InputBuffer.update: the expired actions are deleted
buffer_update(buffered_actions, current_time) ==
    [a \in {b \in DOMAIN buffered_actions :
               ~(current_time - buffered_actions[b] > BufferTime)} |->
        buffered_actions[a]]

\* InputBuffer(): nothing buffered, at time 0.  unit_last counts the calls of
\* buffer_action and the calls of consume_action that returned True.
InitInput ==
    /\ IdleHealth /\ IdleCombat /\ IdleMelee
    /\ IdleBus /\ IdleAI /\ IdleBoss /\ IdleScene
    /\ unit = [buffered_actions |-> <<>>, current_time |-> 0]
    /\ unit_last = [op |-> "init", result |-> FALSE, pre |-> <<>>,
                    buffered |-> 0, consumed |-> 0]

InputOther == <<healthVars, combatVars, meleeVars, busVars, aiVars, bossVars,
                sceneVars>>

\* The caller's clock advances by 0.1 s
ClockAdvance ==
    /\ unit.current_time < MaxInputTime
    /\ unit' = [unit EXCEPT !.current_time = @ + 1]
    /\ unit_last' = [unit_last EXCEPT !.op = "clock", !.result = FALSE,
                                      !.pre = unit.buffered_actions]
    /\ UNCHANGED InputOther

\* input_buffer.buffer_action("attack", current_time)
BufferAction ==
    /\ unit_last.buffered < MaxInputs
    /\ unit' = [unit EXCEPT !.buffered_actions =
                                buffer_action(@, "attack", unit.current_time)]
    /\ unit_last' = [unit_last EXCEPT !.op = "buffer_action", !.result = FALSE,
                                      !.pre = unit.buffered_actions,
                                      !.buffered = @ + 1]
    /\ UNCHANGED InputOther

\* input_buffer.consume_action("attack", current_time)
ConsumeAction ==
    LET r == consume_action(unit.buffered_actions, "attack", unit.current_time)
    IN  /\ unit' = [unit EXCEPT !.buffered_actions = r.buffered_actions]
        /\ unit_last' = [unit_last EXCEPT !.op = "consume_action",
                                          !.result = r.result,
                                          !.pre = unit.buffered_actions,
                                          !.consumed = IF r.result THEN @ + 1 ELSE @]
        /\ UNCHANGED InputOther

\* input_buffer.update(current_time)
BufferUpdate ==
    /\ unit' = [unit EXCEPT !.buffered_actions =
                                buffer_update(@, unit.current_time)]
    /\ unit_last' = [unit_last EXCEPT !.op = "update", !.result = FALSE,
                                      !.pre = unit.buffered_actions]
    /\ UNCHANGED InputOther

NextInput == ClockAdvance \/ BufferAction \/ ConsumeAction \/ BufferUpdate

SpecInput == InitInput /\ [][NextInput]_vars

(***************************************************************************)
(* The attack key, the input buffer and the weapon timer over the ticks of *)
(* GameplayScene.update, in units of 0.1 s.  No other step of the tick     *)
(* reads or writes the buffer or the weapon's last_attack_time.            *)
(***************************************************************************)
\* The tick after which the clock stops
MaxAttackTime == 10

\* The sword's attack_delay of 0.5 s
SwordDelay == 5

\* The dt of a tick
AttackDts == {1, 2}

\* GameplayScene.__init__: time 0, nothing buffered, a sword that has not
\* attacked.  unit_last.pressed_at is the time of the latest press of the
\* attack key made while the weapon was on cooldown and not followed by an
\* attack, or -1
InitAttackInput ==
    /\ IdleHealth /\ IdleCombat /\ IdleMelee
    /\ IdleBus /\ IdleAI /\ IdleBoss /\ IdleScene
    /\ unit = [buffered_actions |-> <<>>, current_time |-> 0,
               weapon |-> [last_attack_time |-> 0, attack_delay |-> SwordDelay]]
    /\ unit_last = [op |-> "init", attacked |-> FALSE, was_ready |-> FALSE,
                    pressed_at |-> -1, owed |-> -1]

AttackInputOther == <<healthVars, combatVars, meleeVars, busVars, aiVars, bossVars,
                      sceneVars>>

\* PlayerController.handle_event with the attack key, between two ticks
PressAttack ==
    /\ unit.current_time < MaxAttackTime
    /\ unit' = [unit EXCEPT !.buffered_actions =
                                buffer_action(@, "attack", unit.current_time)]
    /\ unit_last' = [op |-> "handle_event", attacked |-> FALSE, was_ready |-> FALSE,
                     pressed_at |-> IF can_attack(unit.weapon, unit.current_time)
                                    THEN unit_last.pressed_at
                                    ELSE unit.current_time,
                     owed |-> -1]
    /\ UNCHANGED AttackInputOther

\* GameplayScene.update(dt) up to the attack: the clock advances,
\* PlayerController.update ages the buffer, can_attack consumes the buffered
\* attack and asks the weapon, and perform_attack restarts the weapon's timer
AttackTick ==
    \E dt \in AttackDts :
        LET now == unit.current_time + dt
            aged == buffer_update(unit.buffered_actions, now)
            consumed == consume_action(aged, "attack", now)
            attack == consumed.result /\ can_attack(unit.weapon, now)
        IN  /\ now <= MaxAttackTime
            /\ unit' = [buffered_actions |-> consumed.buffered_actions,
                        current_time |-> now,
                        weapon |-> IF attack
                                   THEN [unit.weapon EXCEPT !.last_attack_time = now]
                                   ELSE unit.weapon]
            /\ unit_last' = [op |-> "update", attacked |-> attack,
                             was_ready |-> can_attack(unit.weapon, now),
                             pressed_at |-> IF attack THEN -1
                                            ELSE unit_last.pressed_at,
                             owed |-> unit_last.pressed_at]
            /\ UNCHANGED AttackInputOther

NextAttackInput == PressAttack \/ AttackTick

SpecAttackInput == InitAttackInput /\ [][NextAttackInput]_vars

(***************************************************************************)
(* CombatSystem.perform_attack with a piercing weapon: the player holds a  *)
(* spear (penetration 1) and three goblins stand within its range.         *)
(***************************************************************************)
\* The hp the goblins start with: one normal blow kills, or two do not
PierceHps == {15, 100}

InitPierce ==
    /\ IdleHealth
    /\ IdleMelee
    /\ IdleExt
    /\ \E hp1 \in PierceHps, hp2 \in PierceHps :
          entities =
             0 :> PlayerWith("spear")
             @@ 1 :> [EnemyBase(40, 0, "enemy") EXCEPT !.Health.hp = hp1]
             @@ 2 :> [EnemyBase(50, 0, "enemy") EXCEPT !.Health.hp = hp2]
             @@ 3 :> [EnemyBase(60, 0, "enemy") EXCEPT !.Health.hp = 100]
    /\ next_id = 4
    /\ event_queue = <<>>
    /\ last = NoCall

\* The player's perform_attack, at a time later than the call before
PierceAttack == PerformAttackAt({0}, (last.now + 1)..MaxTime)

NextPierce == PierceAttack

SpecPierce == InitPierce /\ [][NextPierce]_vars

(***************************************************************************)
(* Inventory (components.py) on its own: set_consumable and use_consumable *)
(* on its two consumable slots.  A slot with no consumable holds "None".   *)
(***************************************************************************)
\* len(consumable_slots)
ConsumableSlots == 2

\* The largest count set_consumable is called with
MaxCount == 3

\* The consumables put into the slots, and the slot numbers tried
ConsumableData == {"potion", "bomb"}
SlotNumbers == -1..ConsumableSlots

\* Inventory.set_consumable: [inv, result]
set_consumable(inv, slot, consumable_data, count) ==
    IF 0 <= slot /\ slot < ConsumableSlots
    THEN [inv |-> [inv EXCEPT !.consumable_slots[slot] = consumable_data,
                              !.consumable_counts[slot] =
                                  IF consumable_data # "None" THEN count ELSE 0],
          result |-> TRUE]
    ELSE [inv |-> inv, result |-> FALSE]

\* Inventory.use_consumable: [inv, result]; the count is decremented, the
\* slot is emptied when the count has reached 0, and the slot is read for
\* the return value after that
use_consumable(inv, slot) ==
    IF /\ 0 <= slot /\ slot < ConsumableSlots
       /\ inv.consumable_slots[slot] # "None"
       /\ inv.consumable_counts[slot] > 0
    THEN LET decremented == [inv EXCEPT !.consumable_counts[slot] = @ - 1]
             after == IF decremented.consumable_counts[slot] <= 0
                      THEN [decremented EXCEPT !.consumable_slots[slot] = "None",
                                               !.consumable_counts[slot] = 0]
                      ELSE decremented
         IN  [inv |-> after, result |-> after.consumable_slots[slot]]
    ELSE [inv |-> inv, result |-> "None"]

\* Inventory(): both consumable slots empty
InitInventory ==
    /\ IdleHealth /\ IdleCombat /\ IdleMelee
    /\ IdleBus /\ IdleAI /\ IdleBoss /\ IdleScene
    /\ unit = [consumable_slots |-> [s \in 0..(ConsumableSlots - 1) |-> "None"],
               consumable_counts |-> [s \in 0..(ConsumableSlots - 1) |-> 0]]
    /\ unit_last = [op |-> "init"]

InventoryOther == <<healthVars, combatVars, meleeVars, busVars, aiVars, bossVars,
                    sceneVars>>

\* inventory.set_consumable(slot, consumable_data, count)
SetConsumable ==
    \E slot \in SlotNumbers, data \in ConsumableData \cup {"None"},
       count \in 0..MaxCount :
        /\ unit' = set_consumable(unit, slot, data, count).inv
        /\ unit_last' = [op |-> "set_consumable", slot |-> slot, before |-> unit,
                         result |-> set_consumable(unit, slot, data, count).result]
        /\ UNCHANGED InventoryOther

\* inventory.use_consumable(slot)
UseConsumable ==
    \E slot \in SlotNumbers :
        /\ unit' = use_consumable(unit, slot).inv
        /\ unit_last' = [op |-> "use_consumable", slot |-> slot, before |-> unit,
                         result |-> use_consumable(unit, slot).result]
        /\ UNCHANGED InventoryOther

NextInventory == SetConsumable \/ UseConsumable

SpecInventory == InitInventory /\ [][NextInventory]_vars

(***************************************************************************)
(* SceneManager (core/scenes.py) on its own, with two registered scenes.   *)
(* A scene is its flags [paused, should_quit, next_scene]; next_scene is   *)
(* "None" when the scene asks for no switch.                               *)
(***************************************************************************)
\* push_scene is not called once the stack holds this many names
MaxStack == 3

\* The registered scenes, and a name that is not registered
SceneNames == {"gameplay", "pause"}
UnknownScene == "credits"

\* Scene.__init__
NewScene == [paused |-> FALSE, should_quit |-> FALSE, next_scene |-> "None"]

\* SceneManager.push_scene; on_enter of the scenes changes none of the flags
push_scene(m, name) ==
    IF name \notin DOMAIN m.scenes THEN m
    ELSE LET paused == IF m.scene_stack # <<>>
                       THEN [m.scenes EXCEPT
                                ![m.scene_stack[Len(m.scene_stack)]].paused = TRUE]
                       ELSE m.scenes
         IN  [m EXCEPT !.scenes = paused,
                       !.scene_stack = Append(m.scene_stack, name)]

\* SceneManager.pop_scene
pop_scene(m) ==
    IF m.scene_stack = <<>> THEN m
    ELSE LET current_name == m.scene_stack[Len(m.scene_stack)]
             rest == SubSeq(m.scene_stack, 1, Len(m.scene_stack) - 1)
             quit_reset == [m.scenes EXCEPT ![current_name].should_quit = FALSE]
         IN  [m EXCEPT !.scene_stack = rest,
                       !.scenes = IF rest # <<>>
                                  THEN [quit_reset EXCEPT ![rest[Len(rest)]].paused = FALSE]
                                  ELSE quit_reset]

\* SceneManager.switch_to
switch_to(m, name) ==
    IF name \notin DOMAIN m.scenes THEN m
    ELSE [m EXCEPT !.scene_stack = <<name>>]

\* SceneManager.should_pop_scene
should_pop_scene(m) ==
    /\ m.scene_stack # <<>>
    /\ m.scenes[m.scene_stack[Len(m.scene_stack)]].should_quit
    /\ Len(m.scene_stack) > 1

\* SceneManager.update: [m, updated], updated the name of the scene whose
\* update ran, or "None"
manager_update(m) ==
    IF should_pop_scene(m) THEN [m |-> pop_scene(m), updated |-> "None"]
    ELSE IF m.scene_stack = <<>> THEN [m |-> m, updated |-> "None"]
    ELSE LET name == m.scene_stack[Len(m.scene_stack)]
             current_scene == m.scenes[name]
         IN  IF current_scene.paused THEN [m |-> m, updated |-> "None"]
             ELSE IF current_scene.next_scene # "None"
             THEN [m |-> [switch_to(m, current_scene.next_scene)
                             EXCEPT !.scenes[name].next_scene = "None"],
                   updated |-> name]
             ELSE [m |-> m, updated |-> name]

\* SceneManager() with the scenes registered
InitScenes ==
    /\ IdleHealth /\ IdleCombat /\ IdleMelee
    /\ IdleBus /\ IdleAI /\ IdleBoss /\ IdleScene
    /\ unit = [scenes |-> [n \in SceneNames |-> NewScene], scene_stack |-> <<>>]
    /\ unit_last = [op |-> "init", updated |-> "None"]

ScenesOther == <<healthVars, combatVars, meleeVars, busVars, aiVars, bossVars,
                 sceneVars>>

\* scene_manager.push_scene(name)
PushScene ==
    \E name \in SceneNames \cup {UnknownScene} :
        /\ Len(unit.scene_stack) < MaxStack
        /\ unit' = push_scene(unit, name)
        /\ unit_last' = [op |-> "push_scene", updated |-> "None"]
        /\ UNCHANGED ScenesOther

\* scene_manager.pop_scene()
PopScene ==
    /\ unit' = pop_scene(unit)
    /\ unit_last' = [op |-> "pop_scene", updated |-> "None"]
    /\ UNCHANGED ScenesOther

\* scene_manager.switch_to(name)
SwitchTo ==
    \E name \in SceneNames \cup {UnknownScene} :
        /\ unit' = switch_to(unit, name)
        /\ unit_last' = [op |-> "switch_to", updated |-> "None"]
        /\ UNCHANGED ScenesOther

\* The scene on top asks to be popped (should_quit) or names the scene to
\* switch to (next_scene), as the menus do in handle_event
SceneRequest ==
    /\ unit.scene_stack # <<>>
    /\ \E quit \in BOOLEAN, next \in SceneNames \cup {"None"} :
          unit' = [unit EXCEPT
                      !.scenes[unit.scene_stack[Len(unit.scene_stack)]] =
                          [@ EXCEPT !.should_quit = quit, !.next_scene = next]]
    /\ unit_last' = [op |-> "handle_event", updated |-> "None"]
    /\ UNCHANGED ScenesOther

\* scene_manager.update(dt)
ManagerUpdate ==
    /\ unit' = manager_update(unit).m
    /\ unit_last' = [op |-> "update", updated |-> manager_update(unit).updated]
    /\ UNCHANGED ScenesOther

NextScenes == PushScene \/ PopScene \/ SwitchTo \/ SceneRequest \/ ManagerUpdate

SpecScenes == InitScenes /\ [][NextScenes]_vars

(***************************************************************************)
(* GameLoop.run (core/loop.py): one action per frame of the loop.  Times   *)
(* are in units of 1/240 s, so the fixed timestep of 1/60 s is 4 units.    *)
(***************************************************************************)
\* fixed_dt = 1.0 / fps with fps = 60
FixedDt == 4

\* frame_time = min(frame_time, 0.25)
FrameTimeCap == 60

\* max_updates
MaxUpdates == 5

\* The frames run
MaxFrames == 3

\* The time.time() differences between two frames: none, less than a
\* timestep, one timestep, a timestep and a half, six timesteps, the cap
\* and more than the cap
FrameTimes == {0, 1, 4, 6, 24, 60, 80}

\* The while loop of a frame: [accumulator, update_count, running];
\* quit_at is the update after which scene_manager.should_quit() is true
\* (0 for none)
RECURSIVE update_loop(_, _, _)
update_loop(accumulator, update_count, quit_at) ==
    IF accumulator >= FixedDt /\ update_count < MaxUpdates
    THEN IF update_count + 1 = quit_at
         THEN [accumulator |-> accumulator - FixedDt,
               update_count |-> update_count + 1, running |-> FALSE]
         ELSE update_loop(accumulator - FixedDt, update_count + 1, quit_at)
    ELSE [accumulator |-> accumulator, update_count |-> update_count,
          running |-> TRUE]

\* GameLoop.__init__ and the first lines of run
InitLoop ==
    /\ IdleHealth /\ IdleCombat /\ IdleMelee
    /\ IdleBus /\ IdleAI /\ IdleBoss /\ IdleScene
    /\ unit = [accumulator |-> 0, running |-> TRUE, frames |-> 0]
    /\ unit_last = [op |-> "init"]

\* One pass of `while self.running`: the accumulator the frame ends with is
\* the numerator of alpha, over FixedDt
Frame ==
    \E elapsed \in FrameTimes, quit_at \in 0..MaxUpdates :
        LET frame_time == Min(elapsed, FrameTimeCap)
            r == update_loop(unit.accumulator + frame_time, 0, quit_at)
        IN  /\ unit.running
            /\ unit.frames < MaxFrames
            /\ unit' = [accumulator |-> r.accumulator, running |-> r.running,
                        frames |-> unit.frames + 1]
            /\ unit_last' = [op |-> "frame", frame_time |-> frame_time,
                             update_count |-> r.update_count,
                             alpha_times_dt |-> r.accumulator]
            /\ UNCHANGED <<healthVars, combatVars, meleeVars, busVars, aiVars,
                           bossVars, sceneVars>>

NextLoop == Frame

SpecLoop == InitLoop /\ [][NextLoop]_vars

(***************************************************************************)
(* C1.  A Health component satisfies 0 <= hp <= max_hp after construction   *)
(* and after every take_damage(a) or heal(a), for every integer a.         *)
(* Stated as written; take_damage and heal do not clamp a negative         *)
(* argument, so the statement is violated.                                 *)
(***************************************************************************)
C1_HpWithinBounds == 0 <= h_hp /\ h_hp <= h_max_hp

(***************************************************************************)
(* C2.  For d >= 0, take_damage(d) returns min(d, hp) and leaves            *)
(* hp = max(0, hp - d); for h >= 0, heal(h) returns min(h, max_hp - hp)    *)
(* and leaves hp = min(max_hp, hp + h) (hp, max_hp: the values before the  *)
(* call).                                                                  *)
(***************************************************************************)
C2_ActualDelta ==
    /\ (h_last.op = "take_damage" /\ h_last.amount >= 0) =>
          /\ h_last.ret = Min(h_last.amount, h_last.old_hp)
          /\ h_hp = Max(0, h_last.old_hp - h_last.amount)
    /\ (h_last.op = "heal" /\ h_last.amount >= 0) =>
          /\ h_last.ret = Min(h_last.amount, h_max_hp - h_last.old_hp)
          /\ h_hp = Min(h_max_hp, h_last.old_hp + h_last.amount)

\* A take_damage whose amount exceeds the hp that was left: the clamp acts.
C2_Witness ==
    /\ h_last.op = "take_damage"
    /\ h_last.old_hp > 0
    /\ h_last.amount > h_last.old_hp
    /\ h_last.ret = h_last.old_hp
    /\ h_hp = 0


\* The events the last call appended to the queue
NewEvents == SubSeq(event_queue, Len(last.pre_queue) + 1, Len(event_queue))

\* The last call emitted an event of this type about this entity
HasNew(event_type, entity_id) ==
    \E i \in DOMAIN NewEvents :
        /\ NewEvents[i].event_type = event_type
        /\ NewEvents[i].entity_id = entity_id

\* The last call was apply_damage on a living target and brought its hp to 0
LastCallKilled ==
    /\ last.op = "apply_damage"
    /\ last.target \in DOMAIN last.pre_ents
    /\ last.pre_ents[last.target].Health.hp > 0
    /\ last.ret = last.pre_ents[last.target].Health.hp

(***************************************************************************)
(* C3.  perform_attack takes effect only when                              *)
(* now - last_attack_time >= attack_delay: a gated call returns no hits    *)
(* and changes neither last_attack_time nor any entity's hp (nor anything  *)
(* else), and a call that passes the gate sets last_attack_time = now, so  *)
(* that the call before it that passed was at least attack_delay earlier.  *)
(***************************************************************************)
C3_CooldownGate ==
    (last.op = "perform_attack" /\ last.outcome # "missing") =>
        LET w == last.pre_ents[last.attacker].Weapon
        IN  IF last.now - w.last_attack_time >= w.attack_delay
            THEN /\ last.outcome \in {"done", "raised"}
                 /\ entities[last.attacker].Weapon.last_attack_time = last.now
            ELSE /\ last.outcome = "gated"
                 /\ last.hits = <<>>
                 /\ entities = last.pre_ents
                 /\ event_queue = last.pre_queue

\* A second successful attack, one that lands a hit
C3_Witness ==
    /\ last.op = "perform_attack"
    /\ last.outcome = "done"
    /\ last.pre_ents[last.attacker].Weapon.last_attack_time > 0
    /\ Len(last.hits) > 0

(***************************************************************************)
(* C4.  A player whose sword has never attacked (base damage 15, no crit)  *)
(* and who calls perform_attack at time 0 against a goblin of hp 30 (no    *)
(* dodge) within range leaves the goblin at hp 15.                         *)
(***************************************************************************)
C4_FirstSwingAtZero ==
    ( /\ last.op = "perform_attack"
      /\ last.attacker = 0
      /\ last.now = 0
      /\ last.target = <<40, 0>>
      /\ last.pre_ents[0].Weapon.last_attack_time = 0
      /\ 1 \in DOMAIN last.pre_ents
      /\ last.pre_ents[1].Health.hp = 30
      /\ 1 \notin last.crit
      /\ 1 \notin last.dodge )
    => ( /\ 1 \in DOMAIN entities
         /\ entities[1].Health.hp = 15 )

(***************************************************************************)
(* C6.  When the target's faction is enemy and the dodge roll is below 0.1 *)
(* apply_damage returns 0, emits no event and leaves the target's hp (and  *)
(* the whole store) unchanged; a target of player, boss or neutral faction *)
(* never dodges: whatever the roll, it takes min(damage, hp).              *)
(***************************************************************************)
C6_DodgeOnlyEnemies ==
    (last.op = "apply_damage" /\ last.target \in DOMAIN last.pre_ents) =>
        LET t == last.pre_ents[last.target]
        IN  IF t.Faction = "enemy"
            THEN (last.target \in last.dodge) =>
                     /\ last.ret = 0
                     /\ entities = last.pre_ents
                     /\ event_queue = last.pre_queue
            ELSE /\ last.ret = Min(last.damage, t.Health.hp)
                 /\ last.target \in DOMAIN entities =>
                        entities[last.target].Health.hp = t.Health.hp - last.ret

\* An enemy with hp left dodges a blow
C6_Witness ==
    /\ last.op = "apply_damage"
    /\ last.target \in DOMAIN last.pre_ents
    /\ last.pre_ents[last.target].Faction = "enemy"
    /\ last.pre_ents[last.target].Health.hp > 0
    /\ last.target \in last.dodge
    /\ last.ret = 0

(***************************************************************************)
(* C7.  When apply_damage brings a target's hp to 0, an enemy-faction      *)
(* target gets an enemy-killed event and is removed from the store, a      *)
(* boss-faction target stays in the store, and a player-faction target     *)
(* gets a player-died event.                                               *)
(***************************************************************************)
C7_DeathHandling ==
    LastCallKilled =>
        LET tag == last.pre_ents[last.target].Faction
        IN  /\ tag = "enemy" => /\ HasNew("enemy_killed", last.target)
                                /\ last.target \notin DOMAIN entities
            /\ tag = "boss" => last.target \in DOMAIN entities
            /\ tag = "player" => HasNew("player_died", last.target)

(***************************************************************************)
(* C8.  When an enemy or boss is killed, the killer's Experience gains     *)
(* floor(10 * (1 + enemy_level * 0.1)) XP, tripled for a boss-faction      *)
(* victim, and a level-up event for the killer is emitted exactly when     *)
(* the gain raises the killer's level.  enemy_level is the level in the    *)
(* victim's Experience component; for a victim that has none, any level    *)
(* of EnemyLevels is accepted.                                             *)
(***************************************************************************)
EnemyLevels == 0..3

C8_XpOnKill ==
    ( /\ LastCallKilled
      /\ last.pre_ents[last.target].Faction \in {"enemy", "boss"}
      /\ last.attacker \in DOMAIN last.pre_ents
      /\ has_component(last.pre_ents[last.attacker], "Experience") )
    => LET victim == last.pre_ents[last.target]
           before == last.pre_ents[last.attacker].Experience
           levels == IF has_component(victim, "Experience")
                     THEN {victim.Experience.level} ELSE EnemyLevels
       IN  \E lvl \in levels :
             LET after == add_xp(before, xp_amount(lvl, victim.Faction))
             IN  /\ entities[last.attacker].Experience = after
                 /\ HasNew("level_up", last.attacker) <=> after.level > before.level


(***************************************************************************)
(* C5.  No attack path damages a non-hostile entity: on a tick of melee    *)
(* hitbox checks, every entity whose hp changed (or that was removed) was  *)
(* struck on behalf of an attacker other than itself whose faction is      *)
(* hostile to the entity's faction under Faction.is_enemy_of.              *)
(***************************************************************************)
C5_OnlyHostilesDamaged ==
    (last.op = "update_attack_frames") =>
        \A e \in DOMAIN last.pre_ents :
            ( /\ has_component(last.pre_ents[e], "Health")
              /\ \/ e \notin DOMAIN entities
                 \/ entities[e].Health.hp # last.pre_ents[e].Health.hp )
            => \E i \in DOMAIN last.calls :
                  LET a == last.calls[i][1]
                  IN  /\ last.calls[i][2] = e
                      /\ a # e
                      /\ is_enemy_of(last.pre_ents[a].Faction, last.pre_ents[e].Faction)

(***************************************************************************)
(* C9.  A hitbox registers hits only while                                 *)
(* start_frame <= current_frame <= end_frame: every entity check_hits      *)
(* returns, called on its own or by update_attack_frames, is covered by a  *)
(* hitbox whose current frame lies in its window, so a hitbox at frame     *)
(* start_frame - 1, or at any other frame outside the window, contributes  *)
(* no hit.                                                                 *)
(***************************************************************************)
C9_HitsOnlyInWindow ==
    (last.op \in {"check_hits", "update_attack_frames"}) =>
        \A i \in DOMAIN last.hits :
            \E k \in DOMAIN active_hitboxes :
                LET hitbox == active_hitboxes[k]
                    target == last.pre_ents[last.hits[i]]
                IN  /\ hitbox.start_frame <= hitbox.current_frame
                    /\ hitbox.current_frame <= hitbox.end_frame
                    /\ check_entity(hitbox, target.Transform, target.Collider)

\* check_hits returns nothing while the one hitbox, which covers the
\* hostile, is at frame start_frame - 1
C9_Witness ==
    /\ last.op = "check_hits"
    /\ last.exclude_ids = {}
    /\ last.hits = <<>>
    /\ Len(active_hitboxes) = 1
    /\ active_hitboxes[1].current_frame = active_hitboxes[1].start_frame - 1
    /\ 1 \in DOMAIN entities
    /\ check_entity(active_hitboxes[1], entities[1].Transform, entities[1].Collider)

(***************************************************************************)
(* C10.  Over the whole active window of one hitbox each target is hit and *)
(* damaged at most once: no entity has taken more damaging melee hits than *)
(* there have been swings.                                                 *)
(***************************************************************************)
C10_OncePerSwing ==
    \A e \in DOMAIN blows : blows[e] <= swings


(***************************************************************************)
(* C11.  A sword swing's arc is centred on the attack direction: a point   *)
(* within the weapon radius is inside the hitbox exactly when its bearing  *)
(* from the attacker is within arc_angle/2 (30 degrees) of the attack      *)
(* direction.                                                              *)
(***************************************************************************)
\* Points around the player, on both sides of either attack direction
ProbePoints == {<<40, 10>>, <<40, -10>>, <<20, -30>>, <<-10, -40>>, <<10, -40>>}

\* The bearing of the point from the centre is within 30 degrees of dir:
\* cos >= sqrt(3)/2
WithinHalfArc(dir, center, point) ==
    LET vx == point[1] - center[1]
        vy == point[2] - center[2]
        n2 == vx * vx + vy * vy
        dot == dir[1] * vx + dir[2] * vy
    IN  n2 = 0 \/ (dot >= 0 /\ 4 * dot * dot >= 3 * n2)

C11_ArcCentred ==
    \A k \in DOMAIN active_hitboxes :
        active_hitboxes[k].kind = "arc" =>
            \A point \in ProbePoints :
                arc_check_point(active_hitboxes[k], point)
                    <=> WithinHalfArc(active_hitboxes[k].dir,
                                      active_hitboxes[k].center, point)


(***************************************************************************)
(* C12.  EventBus.process delivers events in the order they were emitted:  *)
(* the events queued before the call come first, in queue order; an event  *)
(* a handler emits during process is delivered within that same call,      *)
(* after every event emitted before it; every handler subscribed to an     *)
(* event's type receives it, in subscription order; and when process       *)
(* returns the queue is empty.                                             *)
(***************************************************************************)
C12_FifoDrain ==
    (bus_last.op = "process") =>
        LET popped == bus_last.popped
            n == Len(bus_last.pre_queue)
        IN  /\ event_queue = <<>>
            /\ n <= Len(popped)
            /\ SubSeq(popped, 1, n) = bus_last.pre_queue
            /\ \A i, j \in DOMAIN popped : i < j => popped[i].seq < popped[j].seq
            /\ \A q \in bus_last.pre_seq .. (bus_seq - 1) :
                  \E i \in DOMAIN popped : popped[i].seq = q
            /\ \A i, j \in DOMAIN bus_last.deliveries :
                  i < j => bus_last.deliveries[i][1] <= bus_last.deliveries[j][1]
            /\ \A i \in DOMAIN popped :
                  LET hs == handlers_get(bus_handlers, popped[i].event_type)
                      IsOf(d) == d[1] = popped[i].seq
                  IN  SelectSeq(bus_last.deliveries, IsOf)
                          = [k \in 1..Len(hs) |-> <<popped[i].seq, hs[k]>>]

\* process with two events queued, during which a handler emits a third
C12_Witness ==
    /\ bus_last.op = "process"
    /\ Len(bus_last.pre_queue) >= 2
    /\ Len(bus_last.popped) > Len(bus_last.pre_queue)

(***************************************************************************)
(* C15.  After an enemy state-machine update with a player present the AI  *)
(* state is a function of the distance d to the player alone: attack if    *)
(* d <= attack_range, chase if attack_range < d <= agro_radius, patrol if  *)
(* d > agro_radius.                                                        *)
(***************************************************************************)
C15_StateByDistance ==
    (ai_last.op = "enemy_ai_update" /\ 0 \in DOMAIN ai_last.pre_ents) =>
        \A e \in DOMAIN StateTimers(entities) :
            (e \in DOMAIN ai_last.pre_ents /\ has_component(entities[e], "Enemy")) =>
                LET config == ConfigOf(entities[e].Enemy.enemy_type)
                    dx == ai_last.pre_ents[0].Transform.x
                              - ai_last.pre_ents[e].Transform.x
                    dy == ai_last.pre_ents[0].Transform.y
                              - ai_last.pre_ents[e].Transform.y
                    d2 == dx * dx + dy * dy
                IN  entities[e].AI.state =
                        IF d2 <= config.attack_range * config.attack_range
                        THEN "attack"
                        ELSE IF d2 <= config.agro_radius * config.agro_radius
                        THEN "chase"
                        ELSE "patrol"

(***************************************************************************)
(* C16.  AI.state_timer is reset to 0 only when the AI state changes: an   *)
(* update that sets the state the AI is already in leaves state_timer at   *)
(* the value it had when set_state was called.                             *)
(***************************************************************************)
C16_TimerResetOnChangeOnly ==
    (ai_last.op \in {"enemy_ai_update", "ai_system_update"}) =>
        \A e \in DOMAIN ai_last.at_set :
            ( /\ e \in DOMAIN entities
              /\ ai_last.pre_ents[e].AI.state = entities[e].AI.state ) =>
                entities[e].AI.state_timer = ai_last.at_set[e]

\* The puddles of the list that hold the entity, in list order
HoldingPuddles(entity) ==
    LET Holds(p) == check_collision(p, entity.Transform.x, entity.Transform.y)
    IN  SelectSeq(puddles, Holds)

\* The SLOWED effects the entity carries
SlowedEffects(entity) ==
    LET IsSlowed(e) == e.effect_type = "slowed"
    IN  SelectSeq(entity.StatusEffects, IsSlowed)

(***************************************************************************)
(* C20.  After a PuddleSystem.update that finds the player inside one or   *)
(* several active puddles the player holds exactly one SLOWED status, and  *)
(* its duration and slow value are those of the puddle applied on that     *)
(* tick (the first puddle of the list that holds the player), so that a    *)
(* later, different puddle overwrites both.                                *)
(***************************************************************************)
C20_SingleSlowRefreshed ==
    (ai_last.op = "puddle_update" /\ HoldingPuddles(entities[0]) # <<>>) =>
        LET applied == Head(HoldingPuddles(entities[0]))
            slows == SlowedEffects(entities[0])
        IN  /\ Len(slows) = 1
            /\ slows[1].duration = applied.duration
            /\ slows[1].value = applied.slow_amount

\* The goblin chief's AI component before and after the last BossSystem call
BossAIBefore == boss_last.pre_ents[boss_system.boss_id].AI

BossAIAfter == entities[boss_system.boss_id].AI

\* The first attack, in the order dash, slam, summon, whose cooldown the
\* state timer has reached and which the phase unlocks; "none" without one
FirstReadyAttack ==
    LET boss == boss_last.pre_ents[boss_system.boss_id]
        config == boss_system.boss_config
        in_phase_2 == phase_2(boss.Health, config)
    IN  IF boss.AI.state_timer >= config.dash.cooldown THEN "dash"
        ELSE IF in_phase_2 /\ boss.AI.state_timer >= config.slam.cooldown THEN "slam"
        ELSE IF in_phase_2 /\ boss.AI.state_timer >= config.summon.cooldown
        THEN "summon"
        ELSE "none"

(***************************************************************************)
(* C17.  On a BossSystem.update with no telegraph pending the boss starts  *)
(* the first cooldown-ready attack in the order dash, slam, summon, slam   *)
(* and summon counting only in phase 2 (hp <= max_hp * phase_2_threshold): *)
(* the attack's telegraph is set on the boss's AI with its duration, and   *)
(* nothing is started when no attack is ready.                             *)
(***************************************************************************)
C17_FirstReadyAttack ==
    ( /\ boss_last.op = "boss_update"
      /\ boss_last.reached
      /\ BossAIBefore.telegraph_duration <= 0 ) =>
        IF FirstReadyAttack = "none"
        THEN BossAIAfter = BossAIBefore
        ELSE /\ BossAIAfter.telegraph_type = FirstReadyAttack
             /\ BossAIAfter.telegraph_duration =
                    boss_system.boss_config[FirstReadyAttack].telegraph_duration

(***************************************************************************)
(* C18.  While a boss telegraph is pending no new attack is chosen; an     *)
(* attack is executed exactly on the update on which its telegraph         *)
(* duration runs out, it is the attack that was telegraphed, and it is     *)
(* executed once per telegraph started; a call that executes no attack     *)
(* (a telegraph starting or running, TelegraphSystem.update,               *)
(* start_boss_fight) changes no entity's hp.                               *)
(***************************************************************************)
C18_TelegraphThenExecute ==
    /\ boss_last.execs <= boss_last.starts
    /\ boss_last.starts <= boss_last.execs + 1
    /\ (boss_last.op = "boss_update" /\ ~boss_last.reached) =>
           boss_last.executed = "none"
    /\ (boss_last.op = "boss_update" /\ boss_last.reached) =>
           /\ (BossAIBefore.telegraph_duration > 0) =>
                  /\ boss_last.chosen = "none"
                  /\ BossAIAfter.telegraph_type
                         \in {BossAIBefore.telegraph_type, "None"}
           /\ (boss_last.executed # "none") <=>
                  /\ BossAIBefore.telegraph_duration > 0
                  /\ BossAIBefore.telegraph_duration - boss_last.dt <= 0
           /\ (boss_last.executed # "none") =>
                  boss_last.executed = BossAIBefore.telegraph_type
    /\ ( /\ boss_last.op \in {"boss_update", "telegraph_update", "start_boss_fight"}
         /\ boss_last.executed = "none" ) =>
           \A e \in DOMAIN boss_last.pre_ents :
               /\ e \in DOMAIN entities
               /\ has_component(boss_last.pre_ents[e], "Health") =>
                      entities[e].Health = boss_last.pre_ents[e].Health

\* A telegraphed slam has been executed and has cost the player hp
C18_Witness ==
    /\ boss_last.op = "boss_update"
    /\ boss_last.executed = "slam"
    /\ boss_last.starts >= 1
    /\ \E e \in DOMAIN boss_last.pre_ents :
          /\ has_component(boss_last.pre_ents[e], "Faction")
          /\ boss_last.pre_ents[e].Faction = "player"
          /\ entities[e].Health.hp < boss_last.pre_ents[e].Health.hp

\* ---- Claims about the GameplayScene tick ----

\* C13: at the end of every GameplayScene tick the event queue is empty: every
\* event emitted during the tick has been delivered before the tick ends.
C13_QueueDrainedEachTick ==
    scene_last.op = "update" => event_queue = <<>>

\* The stage of the claimed order a step of the tick belongs to; 0 for the
\* steps the order does not name
Stage(step) ==
    CASE step \in {"input", "attack"} -> 1
      [] step = "movement" -> 2
      [] step \in {"projectile", "attack_frames"} -> 3
      [] step = "status_decay" -> 4
      [] step = "ai" -> 5
      [] step \in {"puddle", "boss"} -> 6
      [] step \in {"wall_collision_player", "wall_collision_enemies"} -> 7
      [] step = "pickup" -> 8
      [] step \in {"camera_shake", "camera_follow"} -> 9
      [] OTHER -> 0

\* The stages of the steps of the last tick, in the order they ran
StagesRun ==
    LET named == SelectSeq(tick_log, LAMBDA step : Stage(step) # 0)
    IN  [i \in 1..Len(named) |-> Stage(named[i])]

\* C14: within one tick every subsystem runs exactly once and in the order
\* input, movement, projectile/hitbox/attack frames, status-effect decay, AI,
\* puddle/boss, wall collision, pickup, camera.
C14_FixedOrderOncePerTick ==
    scene_last.op = "update" =>
        /\ \A i \in 1..(Len(StagesRun) - 1) : StagesRun[i] <= StagesRun[i + 1]
        /\ \A stage \in 1..9 : \E i \in 1..Len(StagesRun) : StagesRun[i] = stage
        /\ \A i, j \in 1..Len(tick_log) : tick_log[i] = tick_log[j] => i = j

\* The slimes whose death the last tick handled
SlimesHandled ==
    {scene_last.delivered[i].entity_id :
        i \in {k \in 1..Len(scene_last.delivered) :
                 /\ scene_last.delivered[k].event_type = "enemy_killed"
                 /\ scene_last.delivered[k].entity_id \in DOMAIN scene_last.kinds
                 /\ scene_last.kinds[scene_last.delivered[k].entity_id] = "slime"}}

\* The small slimes the last tick added to the store
NewSmallSlimes ==
    {e \in DOMAIN entities :
        /\ e >= scene_last.pre_next_id
        /\ has_component(entities[e], "Enemy")
        /\ entities[e].Enemy.enemy_type = "slime_small"}

\* C19: once the tick that handles the death of a slime with split_chance 1.0
\* and split_count 2 has finished, exactly 2 new slime_small entities exist.
C19_SlimeSplitsInTwo ==
    (scene_last.op = "update" /\ SlimesHandled # {})
        => Cardinality(NewSmallSlimes) = 2 * Cardinality(SlimesHandled)

\* ---- Claims about Pathfinder.find_path ----

\* The tile a world position lies in
TileOf(pos) == <<pos[1] \div TileSize, pos[2] \div TileSize>>

\* The tiles that can be walked to from the tiles of seen, by steps to
\* walkable neighbours in the eight directions
RECURSIVE WalkableFrom(_, _)
WalkableFrom(level, seen) ==
    LET more == {<<t[1] + d[1], t[2] + d[2]>> :
                    t \in seen, d \in {-1, 0, 1} \X {-1, 0, 1}}
        next == seen \cup {t \in more : is_walkable(level, t[1], t[2])}
    IN  IF next = seen THEN seen ELSE WalkableFrom(level, next)

\* The search of the last call cannot succeed: the tile searched for is not
\* among the tiles that can be walked to from the tile searched from
GoalUnreachable ==
    snap(unit.level, TileOf(unit.goal))
        \notin WalkableFrom(unit.level, {snap(unit.level, TileOf(unit.start))})

RECURSIVE PathCost(_)
PathCost(path) ==
    IF Len(path) <= 1 THEN 0
    ELSE (IF path[1][1] # path[2][1] /\ path[1][2] # path[2][2]
          THEN DiagonalCost ELSE OrthogonalCost)
         + PathCost(Tail(path))

\* The tile distances of the last call along x and along y
TileDx == Abs(TileOf(unit.start)[1] - TileOf(unit.goal)[1])
TileDy == Abs(TileOf(unit.start)[2] - TileOf(unit.goal)[2])

\* C22: on a level where every tile is walkable, the path between tiles that
\* differ by (dx, dy) has max(|dx|,|dy|) steps and costs
\* 1.414 * min(|dx|,|dy|) + 1.0 * (max(|dx|,|dy|) - min(|dx|,|dy|)).
C22_OpenGridCheapestPath ==
    (unit_last.op = "find_path" /\ unit.level.blocked = {})
        => /\ Len(unit_last.path) - 1 = Max(TileDx, TileDy)
           /\ PathCost(unit_last.path)
                  = DiagonalCost * Min(TileDx, TileDy)
                    + OrthogonalCost * (Max(TileDx, TileDy) - Min(TileDx, TileDy))
           /\ unit_last.path[1] = tile_centre(TileOf(unit.start))
           /\ unit_last.path[Len(unit_last.path)] = tile_centre(TileOf(unit.goal))

\* A path on the open level that mixes diagonal and orthogonal steps
C22_Witness ==
    /\ unit_last.op = "find_path"
    /\ unit.level.blocked = {}
    /\ Min(TileDx, TileDy) >= 1
    /\ Max(TileDx, TileDy) > Min(TileDx, TileDy)
    /\ Len(unit_last.path) - 1 = Max(TileDx, TileDy)

\* ---- Claims about the EntityManager ----

\* C23: over any sequence of create_entity, remove_entity and clear on one
\* EntityManager, create_entity never returns an id that an earlier
\* create_entity on that manager returned.
C23_IdsNeverReused ==
    unit_last.op = "create_entity" => unit_last.id \notin unit_last.before

\* ---- Claims about StatusEffects ----

\* The positions of the effects of one kind
OfKind(effects, effect_type) ==
    {i \in DOMAIN effects : effects[i].effect_type = effect_type}

\* C24: after any sequence of add_effect, remove_effect and update the set
\* holds at most one effect per kind, and adding a kind that is present puts
\* the new duration on the existing effect, adds no entry and leaves the
\* value as it was.
C24_OnePerKindRefreshed ==
    /\ unit_last.op \in {"add_effect", "remove_effect", "update"}
          => \A i, j \in DOMAIN unit.effects :
                unit.effects[i].effect_type = unit.effects[j].effect_type => i = j
    /\ (/\ unit_last.op = "add_effect"
        /\ OfKind(unit_last.pre, unit_last.effect.effect_type) # {})
          => /\ Len(unit.effects) = Len(unit_last.pre)
             /\ \A i \in DOMAIN unit.effects :
                   IF i \in OfKind(unit_last.pre, unit_last.effect.effect_type)
                   THEN unit.effects[i]
                            = [unit_last.pre[i] EXCEPT
                                  !.duration = unit_last.effect.duration]
                   ELSE unit.effects[i] = unit_last.pre[i]

\* An effect was added whose kind was present with another duration and
\* another value, next to an effect of the other kind
C24_Witness ==
    /\ unit_last.op = "add_effect"
    /\ Len(unit_last.pre) = 2
    /\ \E i \in OfKind(unit_last.pre, unit_last.effect.effect_type) :
          /\ unit_last.pre[i].duration # unit_last.effect.duration
          /\ unit_last.pre[i].value # unit_last.effect.value
          /\ unit.effects[i].duration = unit_last.effect.duration

\* ---- Claims about Damage.calculate_damage ----

\* round(tenths / 10) as Python rounds: to the nearest integer, a half to the
\* even one
RoundTenths(tenths) ==
    LET q == tenths \div 10
        r == tenths % 10
    IN  IF r < 5 THEN q
        ELSE IF r > 5 THEN q + 1
        ELSE IF q % 2 = 0 THEN q ELSE q + 1

\* C25: calculate_damage with a forced crit returns
\* round((base + bonus_damage) * crit_multiplier), and with a forced non-crit
\* returns base + bonus_damage.
C25_CritIsRounded ==
    unit_last.op = "calculate_damage"
        => unit_last.damage
              = IF unit_last.is_crit
                THEN RoundTenths((unit.base + unit.bonus_damage)
                                 * unit.crit_multiplier_x10)
                ELSE unit.base + unit.bonus_damage

\* ---- Claims about the InputBuffer ----

\* C26: a buffered attack input is consumed at most once and only within
\* buffer_time of being buffered; an older input is discarded and triggers
\* nothing.
C26_ConsumedOnceInTime ==
    /\ unit_last.op \in {"clock", "buffer_action", "consume_action", "update"}
          => unit_last.consumed <= unit_last.buffered
    /\ unit_last.op = "consume_action"
          => /\ "attack" \notin DOMAIN unit.buffered_actions
             /\ unit_last.result
                   => /\ "attack" \in DOMAIN unit_last.pre
                      /\ unit.current_time - unit_last.pre["attack"] <= BufferTime
             /\ ("attack" \in DOMAIN unit_last.pre
                 /\ unit.current_time - unit_last.pre["attack"] > BufferTime)
                   => ~unit_last.result

\* An input buffered more than buffer_time ago was offered for consumption
\* and refused, after an earlier input had been consumed in time
C26_Witness ==
    /\ unit_last.op = "consume_action"
    /\ "attack" \in DOMAIN unit_last.pre
    /\ unit.current_time - unit_last.pre["attack"] > BufferTime
    /\ ~unit_last.result
    /\ unit_last.consumed >= 1

\* ---- Claims about penetration in CombatSystem.perform_attack ----

\* The entities other than the attacker the last call damaged or removed
DamagedByLast ==
    {e \in DOMAIN last.pre_ents \ {last.attacker} :
        \/ e \notin DOMAIN entities
        \/ /\ has_component(last.pre_ents[e], "Health")
           /\ entities[e].Health # last.pre_ents[e].Health}

\* The call of last was made by an attacker holding a piercing weapon
PiercingAttack ==
    /\ last.op = "perform_attack"
    /\ last.attacker \in DOMAIN last.pre_ents
    /\ has_component(last.pre_ents[last.attacker], "Weapon")
    /\ last.pre_ents[last.attacker].Weapon.penetration > 0

\* C27: with weapon penetration p > 0 one perform_attack call records at most
\* p + 1 hits, and once the (p+1)-th hit is recorded no further candidate is
\* damaged.
C27_PenetrationCapsHits ==
    PiercingAttack =>
        LET p == last.pre_ents[last.attacker].Weapon.penetration
        IN  /\ Len(last.hits) <= p + 1
            /\ Cardinality(DamagedByLast) <= p + 1
            /\ Len(last.hits) = p + 1
                  => \A e \in DOMAIN last.pre_ents \ {last.attacker} :
                        e > last.hits[p + 1]
                            => /\ e \in DOMAIN entities
                               /\ entities[e] = last.pre_ents[e]

\* A spear attack recorded two hits and left a third goblin within range
\* untouched
C27_Witness ==
    /\ PiercingAttack
    /\ last.hits = <<1, 2>>
    /\ 3 \in DOMAIN entities
    /\ LET dx == last.pre_ents[3].Transform.x - last.target[1]
           r == get_effective_range(last.pre_ents[0].Weapon)
       IN  dx * dx <= r * r
    /\ entities[3] = last.pre_ents[3]

\* ---- Claims about the damage window of a melee hitbox ----

\* The hitbox the swing of the last call created
NewestHitbox == active_hitboxes[Len(active_hitboxes)]

\* A swing has just been made and the next step is the update of the tick
\* after it
FirstUpdateAfterSwing ==
    /\ last.op = "weapon_attack"
    /\ last.outcome = "done"
    /\ active_hitboxes # <<>>
    /\ frame_counter' = frame_counter + 1

\* C28: the damage window of a melee hitbox is measured from the tick T its
\* swing started: the hitbox registers hits on the ticks T + start_frame to
\* T + end_frame and is discarded only after T + end_frame.  On the tick
\* T + 1 a hitbox whose end_frame is at least 1 is therefore still held, and
\* it is active exactly when its start_frame is at most 1.
C28_WindowFromSwingStart ==
    [][ (FirstUpdateAfterSwing /\ NewestHitbox.end_frame >= 1)
            => /\ active_hitboxes' # <<>>
               /\ LET kept == active_hitboxes'[Len(active_hitboxes')]
                  IN  /\ [kept EXCEPT !.current_frame = 0]
                            = [NewestHitbox EXCEPT !.current_frame = 0]
                      /\ is_active(kept) <=> NewestHitbox.start_frame <= 1 ]_vars

\* ---- Claims about the wall checks of the tick ----

\* The entity stands on a tile of the level that is walkable
OnWalkableTile(entity) ==
    is_walkable(scene.level, entity.Transform.x \div TileSize,
                entity.Transform.y \div TileSize)

\* C29: after the wall-collision step of every tick the player and every
\* enemy stand on a walkable, in-bounds tile.
C29_NobodyInsideWalls ==
    scene_last.op = "update"
        => \A e \in DOMAIN entities :
              (/\ has_component(entities[e], "Transform")
               /\ has_component(entities[e], "Faction")
               /\ entities[e].Faction \in {"player", "enemy", "boss"})
                  => OnWalkableTile(entities[e])

\* ---- Claims about status effects inside the scene tick ----

\* Entity e held an active effect before the last tick
HadEffect(e) ==
    /\ e \in DOMAIN scene_last.pre_ents
    /\ has_component(scene_last.pre_ents[e], "StatusEffects")
    /\ scene_last.pre_ents[e].StatusEffects # <<>>

\* The effect that outlives a decay of dt is still held by e, with no less
\* than its duration minus dt
DecayedByDt(e, effect, dt) ==
    effect.duration - dt > 0
        => /\ e \in DOMAIN entities
           /\ has_component(entities[e], "StatusEffects")
           /\ \E i \in DOMAIN entities[e].StatusEffects :
                 /\ entities[e].StatusEffects[i].effect_type = effect.effect_type
                 /\ entities[e].StatusEffects[i].duration >= effect.duration - dt

\* C30: one GameplayScene tick of length dt takes exactly dt off the
\* remaining duration of every active status effect, so an effect with more
\* than dt left before the tick is still held after it with its duration
\* less dt (or more, when the tick refreshed it)
C30_EffectsDecayByDt ==
    scene_last.op = "update"
        => \A e \in DOMAIN scene_last.pre_ents :
              (HadEffect(e) /\ e \in DOMAIN entities)
                  => \A i \in DOMAIN scene_last.pre_ents[e].StatusEffects :
                        DecayedByDt(e, scene_last.pre_ents[e].StatusEffects[i],
                                    SceneDt)

\* A tick started with an active status effect
C30_Witness ==
    /\ scene_last.op = "update"
    /\ \E e \in DOMAIN scene_last.pre_ents : HadEffect(e)

\* ---- Claims about the shape of the path find_path returns ----

\* Two tiles are neighbours in one of the eight directions
Adjacent8(a, b) ==
    /\ a # b
    /\ Abs(a[1] - b[1]) <= 1
    /\ Abs(a[2] - b[2]) <= 1

\* The middle of a tile in world coordinates
MiddleOf(t) == <<t[1] * TileSize + TileSize \div 2, t[2] * TileSize + TileSize \div 2>>

\* The start and goal tiles of the last call are walkable and connected
StartGoalConnected ==
    /\ is_walkable(unit.level, TileOf(unit.start)[1], TileOf(unit.start)[2])
    /\ is_walkable(unit.level, TileOf(unit.goal)[1], TileOf(unit.goal)[2])
    /\ TileOf(unit.goal) \in WalkableFrom(unit.level, {TileOf(unit.start)})

\* C40: when the start and goal tiles are walkable and connected, the path
\* find_path returns begins at the centre of the start tile, ends at the
\* centre of the goal tile, holds only centres of walkable tiles of the
\* level, and goes from a tile to one of its eight neighbours at every step.
C40_PathIsWalkableChain ==
    (unit_last.op = "find_path" /\ StartGoalConnected)
        => LET path == unit_last.path
           IN  /\ Len(path) >= 1
               /\ path[1] = MiddleOf(TileOf(unit.start))
               /\ path[Len(path)] = MiddleOf(TileOf(unit.goal))
               /\ \A i \in DOMAIN path :
                     /\ path[i] = MiddleOf(TileOf(path[i]))
                     /\ is_walkable(unit.level, TileOf(path[i])[1], TileOf(path[i])[2])
               /\ \A i \in 1..(Len(path) - 1) :
                     Adjacent8(TileOf(path[i]), TileOf(path[i + 1]))

\* A path of three steps or more that goes round a blocking tile
C40_Witness ==
    /\ unit_last.op = "find_path"
    /\ StartGoalConnected
    /\ unit.level.blocked # {}
    /\ Len(unit_last.path) >= 4
    /\ Len(unit_last.path) - 1 > Max(TileDx, TileDy)

\* ---- Claims about Inventory.use_consumable ----

\* The last call was use_consumable on a slot that held a consumable with a
\* count of one or more
UsedHeldConsumable ==
    /\ unit_last.op = "use_consumable"
    /\ 0 <= unit_last.slot /\ unit_last.slot < ConsumableSlots
    /\ unit_last.before.consumable_slots[unit_last.slot] # "None"
    /\ unit_last.before.consumable_counts[unit_last.slot] >= 1

\* C39: use_consumable on a slot that holds a consumable with count >= 1
\* takes exactly one off the count and returns the consumable's data, also
\* on the use that brings the count to 0 and empties the slot; on an empty
\* or out-of-range slot it returns None and changes nothing.
C39_UseReturnsConsumable ==
    unit_last.op = "use_consumable"
        => IF UsedHeldConsumable
           THEN /\ unit.consumable_counts[unit_last.slot]
                      = unit_last.before.consumable_counts[unit_last.slot] - 1
                /\ unit_last.result
                      = unit_last.before.consumable_slots[unit_last.slot]
                /\ (unit.consumable_counts[unit_last.slot] = 0
                       => unit.consumable_slots[unit_last.slot] = "None")
           ELSE /\ unit_last.result = "None"
                /\ unit = unit_last.before

\* ---- Claims about the SceneManager ----

\* C36: after any sequence of push_scene, pop_scene and switch_to the scene
\* on top of the stack is not paused, so that SceneManager.update advances it.
C36_TopSceneNotPaused ==
    unit.scene_stack # <<>>
        => ~unit.scenes[unit.scene_stack[Len(unit.scene_stack)]].paused

\* ---- Claims about the game loop ----

\* C38: for every sequence of frame times the interpolation factor alpha
\* passed to render satisfies 0 <= alpha < 1: after the update loop of a
\* frame the accumulator holds less than one fixed timestep.
C38_AlphaBelowOne ==
    unit_last.op = "frame"
        => /\ 0 <= unit_last.alpha_times_dt
           /\ unit_last.alpha_times_dt < FixedDt

\* ---- Claims about the buffered attack ----

\* C37: an attack key pressed at t0 while the weapon was on cooldown leads
\* to an attack at the first tick, no later than t0 + buffer_time, at which
\* the weapon is ready: a tick that finds the weapon ready and such a press
\* unanswered and within its buffer time performs the attack.
C37_BufferedAttackFires ==
    (/\ unit_last.op = "update"
     /\ unit_last.owed # -1
     /\ unit.current_time <= unit_last.owed + BufferTime
     /\ unit_last.was_ready)
        => unit_last.attacked

\* ---- Claims about a kill inside perform_attack ----

\* The entities the last call removed from the store
KilledByLast == (DOMAIN last.pre_ents) \ (DOMAIN entities)

\* C32: a perform_attack call that kills one of its targets returns
\* normally, without raising, and reports the killed target among its hits.
C32_KillReturnsNormally ==
    (last.op = "perform_attack" /\ KilledByLast # {})
        => /\ last.outcome = "done"
           /\ \A e \in KilledByLast : \E i \in DOMAIN last.hits : last.hits[i] = e

\* ---- Claims about invulnerability ----

\* Before the last call entity e held the INVULNERABLE status of an enemy's
\* dodge, or was the player with its dodge roll in progress
WasInvulnerable(e) ==
    /\ e \in DOMAIN last.pre_ents
    /\ \/ /\ has_component(last.pre_ents[e], "StatusEffects")
          /\ \E i \in DOMAIN last.pre_ents[e].StatusEffects :
                /\ last.pre_ents[e].StatusEffects[i].effect_type = "invulnerable"
                /\ last.pre_ents[e].StatusEffects[i].duration > 0
       \/ /\ e = 0
          /\ is_invulnerable(unit)

\* C34: an entity with an active invulnerability loses no hp from
\* apply_damage: it is still in the store with the hp it had.
C34_InvulnerableLosesNoHp ==
    (last.op = "apply_damage" /\ WasInvulnerable(last.target))
        => /\ last.target \in DOMAIN entities
           /\ entities[last.target].Health.hp
                  = last.pre_ents[last.target].Health.hp

\* ---- Claims about the slow of a puddle ----

\* C35: while the player holds the SLOWED status a puddle applied, the speed
\* its controller gives it is lower than the unslowed speed.
C35_SlowedPlayerIsSlower ==
    (/\ ai_last.op = "controller_update"
     /\ unit_last.move_input = 1
     /\ SlowedEffects(ai_last.pre_ents[0]) # <<>>)
        => entities[0].Transform.dx < PlayerSpeed

\* ---- Claims about entity id 0 ----

\* The steps of the last tick that are made for the player
PlayerSteps == {"wall_collision_player", "pickup", "camera_follow"}

\* C33: entity id 0 is handled like any other id: in a tick whose player is
\* entity 0 the player's wall check, the auto-pickup and the camera follow
\* are run, and the camera ends on the player (the screen is 1280 x 720).
C33_IdZeroHandled ==
    (/\ scene_last.op = "update"
     /\ scene.player_id = 0
     /\ 0 \in DOMAIN entities
     /\ has_component(entities[0], "Transform"))
        => /\ \A step \in PlayerSteps : \E i \in DOMAIN tick_log : tick_log[i] = step
           /\ scene.camera_x = entities[0].Transform.x - 640
           /\ scene.camera_y = entities[0].Transform.y - 360

\* ---- Claims about the boss's cooldown timer ----

\* The last call was a BossSystem.update of a running fight, made with a
\* living player whose id is not 0, that found no telegraph pending
BossIdleUpdate ==
    /\ boss_last.op = "boss_update"
    /\ boss_last.reached
    /\ boss_system.boss_id \in DOMAIN entities
    /\ truthy(boss_last.player_id)
    /\ boss_last.player_id \in DOMAIN boss_last.pre_ents
    /\ boss_last.pre_ents[boss_last.player_id].Health.hp > 0
    /\ BossAIBefore.telegraph_duration <= 0

\* C31: once a boss fight has been started with a living player the boss's
\* cooldown timer advances with simulated time, so that a dash telegraph is
\* started within the dash cooldown: an update of length dt that finds no
\* telegraph pending starts a telegraph or leaves the timer dt later.
C31_BossTimerAdvances ==
    BossIdleUpdate
        => \/ boss_last.chosen # "none"
           \/ BossAIAfter.state_timer >= BossAIBefore.state_timer + boss_last.dt


====
